---- MODULE Spec2Model ----
(***************************************************************************)
(* Page-flow layout engine of the HR screening report (PdfBuilder).        *)
(*                                                                         *)
(* Lengths are exact decimals in units of 1e-5 mm (Unit per millimetre),   *)
(* so 10 pt * 0.352778 * 1.5 = 5.29167 mm is the integer 529167.  A text   *)
(* is modelled by its width in millimetres when set at the body size; an   *)
(* absent text is the empty tuple.  The backend measures a text in its     *)
(* active font, which is part of the builder's state.  A content procedure *)
(* (a closure in the source) is the sequence of builder calls it makes.    *)
(***************************************************************************)
EXTENDS Integers, Sequences, FiniteSets, TLC

VARIABLES y, pageNumber, numPages, font, textColor, headers, log, checks,
          invoked, pc, frame, call, ncalls, result, index, outline, faulty,
          thrown, rawResult, fileName, currentPage,
          loading, loadingMessage, error, progress, isGeneratingPdf,
          runs, reported

vars == <<y, pageNumber, numPages, font, textColor, headers, log, checks,
          invoked, pc, frame, call, ncalls, result, index, outline, faulty,
          thrown, rawResult, fileName, currentPage,
          loading, loadingMessage, error, progress, isGeneratingPdf,
          runs, reported>>

\* the state of the App component that its handlers set (part_002, lines
\* 14-18 and 35), the invocations of handleAnalyze with their local
\* variables, and the values handed to setProgress since the last one began
ui == <<loading, loadingMessage, error, progress, isGeneratingPdf, runs,
        reported>>

\* error: string | null
null == "null"

\* useState(false), useState(''), useState(null), useState(0): the App as
\* it is mounted, no handler called yet
Mounted ==
    /\ loading = FALSE
    /\ loadingMessage = <<>>
    /\ error = null
    /\ progress = 0
    /\ isGeneratingPdf = FALSE
    /\ runs = <<>>
    /\ reported = <<>>

----------------------------------------------------------------------------
(* Bounds of the exploration *)

MaxCalls == 2
MaxLines == 62
MaxCandidates == 2
MaxItems == 2
MaxRows == 2
MaxFlags == 2

----------------------------------------------------------------------------
(* Layout constants *)

Unit == 10 ^ 5

MARGIN == 15 * Unit
FONT_SIZES == [H1 |-> 20, H2 |-> 16, H3 |-> 12, BODY |-> 10, SMALL |-> 8]
FOOTER_HEIGHT == 10 * Unit

\* new jsPDF('p', 'mm', 'a4'): 210 mm x 297 mm
pageWidth == 210 * Unit
pageHeight == 297 * Unit
contentWidth == pageWidth - MARGIN * 2

\* this.pageHeight - MARGIN - FOOTER_HEIGHT
Limit == pageHeight - MARGIN - FOOTER_HEIGHT
Usable == pageHeight - 2 * MARGIN - FOOTER_HEIGHT

\* (FONT_SIZES.BODY * 0.352778) * LINE_HEIGHT_MULTIPLIER, for one line
TextLineHeight == (FONT_SIZES.BODY * 352778 * 15) \div 100
\* FONT_SIZES.H1 * 0.7, FONT_SIZES.H2 * 0.9, FONT_SIZES.H3 * 0.7
HeaderAdvance == (FONT_SIZES.H1 * 7 * Unit) \div 10
SubheaderAdvance == (FONT_SIZES.H2 * 9 * Unit) \div 10
SectionTitleAdvance == (FONT_SIZES.H3 * 7 * Unit) \div 10

rowHeight == 8 * Unit
colWidths == <<15 * Unit, 85 * Unit, 25 * Unit, 25 * Unit, 25 * Unit>>

\* the arguments of the setTextColor calls: the page header's and footer's
\* grey, the blues of the header and the subheader, the near-black of the
\* titles and score values, the grey of body texts (the default of
\* addBodyText's options), and the green of the "no biases" line
Colors ==
    [furniture |-> <<150, 150, 150>>, header |-> <<30, 64, 175>>,
     subheader |-> <<37, 99, 235>>, title |-> <<17, 24, 39>>,
     body |-> <<75, 85, 99>>, success |-> <<22, 101, 52>>]

----------------------------------------------------------------------------
(* Texts *)

Undefined == <<>>

\* a text that, set at the body size, fills n - 1 lines of the content width
\* and half of another
Text(n) == <<(2 * n - 1) * ((contentWidth \div Unit) \div 2)>>
Width(text) == text[1]

\* the number of lines a text takes at a font size and a wrap width: its
\* width grows in proportion to the font size, and a line is broken wherever
\* it is full (the backend breaks at the last word that fits; an empty text
\* is one line)
Wrapped(text, size, maxlen) ==
    LET room == FONT_SIZES.BODY * (maxlen \div Unit)
        n == (Width(text) * size + room - 1) \div room
    IN  IF n = 0 THEN 1 ELSE n

\* doc.splitTextToSize(text, maxlen).length: the backend measures in the font
\* that is active at the call
splitTextToSize(b, text, maxlen) == Wrapped(text, b.font.size, maxlen)

\* doc.setFont('helvetica', style); doc.setFontSize(size)
setFont(b, style, size) == [b EXCEPT !.font = [size |-> size, style |-> style]]

\* doc.setTextColor(r, g, b)
setTextColor(b, color) == [b EXCEPT !.textColor = color]

----------------------------------------------------------------------------
(* The builder as a value: b.y, b.pageNumber, the backend's page count     *)
(* b.numPages and the page b.currentPage it paints on, its active font     *)
(* b.font and text colour b.textColor, the number of page headers painted  *)
(* on each backend page                                                    *)
(* b.headers, and three records of what the current call did: b.log, the   *)
(* paint operations issued, b.checks, the heights passed to                *)
(* checkAndAddPage, and b.invoked, the number of times a content procedure *)
(* was run.                                                                *)

\* the value of F at the value of e: the builder a call returns, bound to a
\* name for the calls that follow (e is evaluated once)
With(e, F(_)) == CHOOSE r \in {F(v) : v \in {e}} : TRUE

PaintRecord(b, k, t, x, py, h) ==
    [k |-> k, t |-> t, p |-> b.currentPage, x |-> x, y |-> py, h |-> h,
     f |-> b.font, c |-> b.textColor]

Paint(b, k, t, x, py, h) ==
    [b EXCEPT !.log = Append(@, PaintRecord(b, k, t, x, py, h))]

Advance(b, d) == [b EXCEPT !.y = @ + d]

addPageHeader(b) ==
    LET b1 == setTextColor(setFont(b, "normal", FONT_SIZES.SMALL),
                           Colors.furniture)
        b2 == Paint(b1, "text", "pageHeader", MARGIN, MARGIN \div 2, 0)
        b3 == [b2 EXCEPT !.headers[b.currentPage] = @ + 1]
    IN  Paint(b3, "line", "pageHeader", MARGIN, MARGIN \div 2 + 2 * Unit, 0)

\* a new last page, the page painted on left as it is
docAddPage_NotCurrent(b) ==
    [b EXCEPT !.numPages = @ + 1, !.headers = Append(@, 0)]

\* this.doc.addPage(): a new last page, which becomes the current one
docAddPage(b) ==
    [b EXCEPT !.numPages = @ + 1, !.headers = Append(@, 0),
              !.currentPage = b.numPages + 1]

\* this.doc.setPage(i)
setPage(b, i) == [b EXCEPT !.currentPage = i]

\* addPage without this.y = MARGIN
addPage_KeepsY(b) ==
    LET b1 == IF b.pageNumber > 0 THEN docAddPage(b) ELSE b
        b2 == [b1 EXCEPT !.pageNumber = @ + 1]
    IN  addPageHeader(b2)

\* addPage without this.pageNumber++
addPage_NoCount(b) ==
    LET b1 == IF b.pageNumber > 0 THEN docAddPage(b) ELSE b
        b2 == [b1 EXCEPT !.y = MARGIN]
    IN  addPageHeader(b2)

\* addPage without this.addPageHeader()
addPage_NoHeader(b) ==
    LET b1 == IF b.pageNumber > 0 THEN docAddPage(b) ELSE b
    IN  [b1 EXCEPT !.pageNumber = @ + 1, !.y = MARGIN]

addPage(b) ==
    LET b1 == IF b.pageNumber > 0 THEN docAddPage(b) ELSE b
        b2 == [b1 EXCEPT !.pageNumber = @ + 1, !.y = MARGIN]
    IN  addPageHeader(b2)

\* checkAndAddPage comparing against pageHeight - MARGIN, the footer band forgotten
checkAndAddPage_IgnoresFooter(b, requiredHeight) ==
    LET b1 == [b EXCEPT !.checks = Append(@, requiredHeight)]
    IN  IF b1.y + requiredHeight > pageHeight - MARGIN
        THEN addPage(b1)
        ELSE b1

\* no page started for a block that no page can hold
checkAndAddPage_UnlessOverTall(b, requiredHeight) ==
    LET b1 == [b EXCEPT !.checks = Append(@, requiredHeight)]
    IN  IF b1.y + requiredHeight > Limit /\ requiredHeight <= Usable
        THEN addPage(b1) ELSE b1

checkAndAddPage(b, requiredHeight) ==
    LET b1 == [b EXCEPT !.checks = Append(@, requiredHeight)]
    IN  IF b1.y + requiredHeight > Limit THEN addPage(b1) ELSE b1

addHeader(b) ==
    LET b0 == setFont(checkAndAddPage(b, 20 * Unit), "bold", FONT_SIZES.H1)
        b1 == setTextColor(b0, Colors.header)
        b2 == Paint(b1, "text", "header", pageWidth \div 2, b1.y, HeaderAdvance)
    IN  Advance(b2, HeaderAdvance)

addSubheader(b) ==
    LET b0 == setFont(checkAndAddPage(b, 15 * Unit), "bold", FONT_SIZES.H2)
        b1 == setTextColor(b0, Colors.subheader)
        b2 == Paint(b1, "text", "subheader", MARGIN, b1.y, SubheaderAdvance)
    IN  Advance(b2, SubheaderAdvance)

addSectionTitle(b) ==
    LET b0 == setFont(checkAndAddPage(b, 10 * Unit), "bold", FONT_SIZES.H3)
        b1 == setTextColor(b0, Colors.title)
        b2 == Paint(b1, "text", "title", MARGIN, b1.y, SectionTitleAdvance)
    IN  Advance(b2, SectionTitleAdvance)

\* the capacity check of a body text that is never made
bodyCheck_Skip(b, textHeight) == b

bodyCheck(b, textHeight) == checkAndAddPage(b, textHeight)

\* addBodyText without its first line: an absent text is painted as the
\* one-line text String(undefined)
addBodyTextIn_NoGuard(b, text, fontStyle, color) ==
    LET str == IF text = Undefined THEN Text(1) ELSE text
        textLines == splitTextToSize(b, str, contentWidth)
        textHeight == textLines * TextLineHeight
        b0 == setFont(bodyCheck(b, textHeight), fontStyle, FONT_SIZES.BODY)
        b1 == setTextColor(b0, color)
        b2 == Paint(b1, "text", "body", MARGIN, b1.y, textHeight)
    IN  Advance(b2, textHeight)

\* addBodyText(text, { fontStyle, color }): the text is measured (line 101)
\* before the font is set (lines 105-106)
addBodyTextIn(b, text, fontStyle, color) ==
    IF text = Undefined THEN b
    ELSE LET textLines == splitTextToSize(b, text, contentWidth)
             textHeight == textLines * TextLineHeight
             b0 == setFont(bodyCheck(b, textHeight), fontStyle,
                           FONT_SIZES.BODY)
             b1 == setTextColor(b0, color)
             b2 == Paint(b1, "text", "body", MARGIN, b1.y, textHeight)
         IN  Advance(b2, textHeight)

\* addBodyText with options.color left out: color = [75, 85, 99]
addBodyText(b, text, fontStyle) ==
    addBodyTextIn(b, text, fontStyle, Colors.body)

\* the capacity check of an item that is never made
bulletCheck_Skip(b, textHeight) == b

bulletCheck(b, textHeight) == checkAndAddPage(b, textHeight)

\* one iteration of items.forEach in addBulletList: the item is measured
\* (line 118) before the font is set (lines 122-123)
addBulletItem(b, item) ==
    LET textLines == splitTextToSize(b, item, contentWidth - 5 * Unit)
        textHeight == textLines * TextLineHeight
        b0 == setFont(bulletCheck(b, textHeight), "normal", FONT_SIZES.BODY)
        b1 == setTextColor(b0, Colors.body)
        b2 == Paint(b1, "text", "bullet", MARGIN + 2 * Unit, b1.y, TextLineHeight)
        b3 == Paint(b2, "text", "item", MARGIN + 5 * Unit, b2.y, textHeight)
    IN  Advance(b3, textHeight)

RECURSIVE bulletItems(_, _)
bulletItems(b, items) ==
    IF items = <<>> THEN b
    ELSE With(addBulletItem(b, Head(items)),
              LAMBDA b1 : bulletItems(b1, Tail(items)))

addBulletList(b, items) ==
    IF Len(items) = 0 THEN addBodyText(b, Text(1), "italic")
    ELSE bulletItems(b, items)

\* one iteration of scoreItems.forEach in addScoreGrid
RECURSIVE scoreItems(_, _)
scoreItems(b, i) ==
    IF i > 3 THEN b
    ELSE LET itemWidth == contentWidth \div 4
             x == MARGIN + itemWidth * i + itemWidth \div 2
             b1 == Paint(setTextColor(setFont(b, "bold", FONT_SIZES.H3),
                                      Colors.title),
                         "text", "value", x, b.y, 5 * Unit)
             b2 == Paint(setTextColor(setFont(b1, "normal", FONT_SIZES.SMALL),
                                      Colors.body),
                         "text", "label", x, b.y + 5 * Unit, 10 * Unit)
         IN  With(b2, LAMBDA b3 : scoreItems(b3, i + 1))

\* the capacity check of the grid that is never made
gridCheck_Skip(b) == b

gridCheck(b) == checkAndAddPage(b, 20 * Unit)

addScoreGrid(b) ==
    With(gridCheck(b), LAMBDA b1 :
    With(scoreItems(b1, 0), LAMBDA b2 :
    Advance(b2, 15 * Unit)))

\* the separator with no gap below its rule
addSeparator_NoGapBelow(b) ==
    LET b1 == checkAndAddPage(b, 10 * Unit)
        b2 == Advance(b1, 5 * Unit)
    IN  Paint(b2, "line", "rule", MARGIN, b2.y, 0)

addSeparator(b) ==
    LET b1 == checkAndAddPage(b, 10 * Unit)
        b2 == Advance(b1, 5 * Unit)
        b3 == Paint(b2, "line", "rule", MARGIN, b2.y, 0)
    IN  Advance(b3, 5 * Unit)

----------------------------------------------------------------------------
(* finalizeAndAddFooters *)

\* `Page ${i} of ${totalPages}`, with the total taken for the page's own index
pageStr_OfCurrent(i, totalPages) == <<"Page", i, "of", i>>

\* `Page ${i} of ${totalPages}`
pageStr(i, totalPages) == <<"Page", i, "of", totalPages>>

\* one iteration of the loop: doc.setPage(i), the rule at footerY and the
\* page string centred 6 below it, both painted on page i
footer(b, i, totalPages) ==
    LET footerY == pageHeight - FOOTER_HEIGHT
        rule == PaintRecord(setPage(b, i), "line", "footer", MARGIN, footerY, 0)
        str == PaintRecord(setPage(b, i), "text", "footer", pageWidth \div 2,
                           footerY + 6 * Unit, 0)
    IN  <<rule, [k |-> str.k, t |-> str.t, p |-> str.p, x |-> str.x,
                 y |-> str.y, h |-> str.h, f |-> str.f, c |-> str.c,
                 s |-> pageStr(i, totalPages)]>>

\* for (let i = from; i <= totalPages; i++)
RECURSIVE footers(_, _, _)
footers(b, from, totalPages) ==
    IF from > totalPages THEN <<>>
    ELSE footer(b, from, totalPages) \o footers(b, from + 1, totalPages)

\* the footers stamped after a blank page was appended to the document
finalizeAndAddFooters_OnNewPage(b) ==
    LET b0 == [docAddPage(b) EXCEPT !.pageNumber = @ + 1, !.y = MARGIN]
        totalPages == b0.numPages
        b1 == setTextColor(setFont(b0, "normal", FONT_SIZES.SMALL),
                           Colors.furniture)
    IN  [setPage(b1, totalPages) EXCEPT !.log = @ \o footers(b1, 1, totalPages)]

\* the loop leaves page totalPages, the last one, as the current page
finalizeAndAddFooters(b) ==
    LET totalPages == b.numPages
        b1 == setTextColor(setFont(b, "normal", FONT_SIZES.SMALL),
                           Colors.furniture)
    IN  [setPage(b1, totalPages) EXCEPT !.log = @ \o footers(b1, 1, totalPages)]

----------------------------------------------------------------------------
(* addSummaryTable *)

\* x after currentX += colWidths[j] for the first i columns
RECURSIVE columnX(_)
columnX(i) == IF i = 0 THEN MARGIN ELSE columnX(i - 1) + colWidths[i]

\* head[0].forEach / row.forEach: one text per column at currentX + 3, for
\* the row at rowY
tableCells(b, t, rowY) ==
    [i \in 1..Len(colWidths) |->
        PaintRecord(b, "text", t, columnX(i - 1) + 3 * Unit,
                    rowY + (55 * Unit) \div 10, 0)]

\* one iteration of body.forEach, painted at rowY
tableRow(b, rowIndex, rowY) ==
    (IF rowIndex % 2 # 0
     THEN <<PaintRecord(b, "fill", "band", MARGIN, rowY, rowHeight)>>
     ELSE <<>>)
    \o tableCells(b, "cell", rowY)

\* the paints of the first n iterations of body.forEach: each ends with
\* this.y += rowHeight, so row i is painted at b.y + i * rowHeight
RECURSIVE tableRows(_, _)
tableRows(b, n) ==
    IF n = 0 THEN <<>>
    ELSE tableRows(b, n - 1) \o tableRow(b, n - 1, b.y + (n - 1) * rowHeight)

tableBody(b, n) ==
    [b EXCEPT !.log = @ \o tableRows(b, n), !.y = @ + n * rowHeight]

\* colWidths.slice(0, -1).forEach(w => { x += w; line(x, startY, x, this.y) })
tableSeparators(b, startY) ==
    [b EXCEPT !.log = @ \o [i \in 1..(Len(colWidths) - 1) |->
                              PaintRecord(b, "line", "vsep", columnX(i), startY,
                                          b.y - startY)]]

tableStartY(b) == b.y

\* the capacity check sized to the header row alone
tableCheck_HeaderOnly(b, n) == checkAndAddPage(b, rowHeight)

\* the capacity check with room for one row more than the table has
tableCheck_OneRowMore(b, n) == checkAndAddPage(b, (n + 2) * rowHeight)

tableCheck(b, n) == checkAndAddPage(b, (n + 1) * rowHeight)

addSummaryTable(b, n) ==
    LET startY == tableStartY(b)
    IN  With(tableCheck(b, n), LAMBDA b1 :
        With(Paint(setFont(b1, "bold", FONT_SIZES.BODY),
                   "fill", "headband", MARGIN, b1.y, rowHeight), LAMBDA b2 :
        With([b2 EXCEPT !.log = @ \o tableCells(b2, "head", b2.y)], LAMBDA b3 :
        With(setFont(Advance(b3, rowHeight), "normal", FONT_SIZES.BODY),
             LAMBDA b4 :
        With(tableBody(b4, n), LAMBDA b5 :
        With(Paint(b5, "rect", "border", MARGIN, startY, b5.y - startY),
             LAMBDA b6 :
        With(tableSeparators(b6, startY), LAMBDA b7 :
        Advance(b7, 5 * Unit))))))))

----------------------------------------------------------------------------
(* Content procedures: the builder calls a closure makes, in order.        *)

ColoredBlock(text, fontStyle, color) ==
    [t |-> "body", text |-> text, items |-> <<>>, fontStyle |-> fontStyle,
     color |-> color]
BodyBlock(text, fontStyle) == ColoredBlock(text, fontStyle, Colors.body)
BulletBlock(items) ==
    [t |-> "bullets", text |-> Undefined, items |-> items, fontStyle |-> "normal",
     color |-> Colors.body]
GapBlock ==
    [t |-> "gap", text |-> Undefined, items |-> <<>>, fontStyle |-> "normal",
     color |-> Colors.body]

\* flags.forEach: addBodyText(category (severity)); addBulletList([flag]); y += 2
RECURSIVE biasFlags(_)
biasFlags(flags) ==
    IF flags = <<>> THEN <<>>
    ELSE <<BodyBlock(Head(flags).head, "bold"),
           BulletBlock(<<Head(flags).flag>>), GapBlock>>
         \o biasFlags(Tail(flags))

\* the empty list answered as addBulletList answers one
renderBiasAnalysis_NoneListed(flags) ==
    IF Len(flags) > 0 THEN biasFlags(flags)
    ELSE <<BulletBlock(<<>>)>>

\* lines 313-324; 'No concerning biases detected.' is a one-line text
renderBiasAnalysis(flags) ==
    IF Len(flags) > 0 THEN biasFlags(flags)
    ELSE <<ColoredBlock(Text(1), "normal", Colors.success)>>

renderRecommendation(top_candidate, reasoning) ==
    <<BodyBlock(top_candidate, "bold"), BodyBlock(reasoning, "normal")>>

runBlock(b, blk) ==
    CASE blk.t = "body" -> addBodyTextIn(b, blk.text, blk.fontStyle, blk.color)
      [] blk.t = "bullets" -> addBulletList(b, blk.items)
      [] blk.t = "gap" -> Advance(b, 2 * Unit)

RECURSIVE runBlocks(_, _)
runBlocks(b, content) ==
    IF content = <<>> THEN b
    ELSE With(runBlock(b, Head(content)),
              LAMBDA b1 : runBlocks(b1, Tail(content)))

\* content()
runContent(b, content) == [runBlocks(b, content) EXCEPT !.invoked = @ + 1]

----------------------------------------------------------------------------
(* addStyledSection, in the four stretches between which the cursor is     *)
(* reassigned: the first pass, the boundary test with the box and the      *)
(* rewind, the repaint, and the final assignment of y.                     *)

NoFrame == [content |-> <<>>, startY |-> 0, contentStartY |-> 0,
            contentEndY |-> 0, endY |-> 0, titlePage |-> 0, startPage |-> 0,
            endPage |-> 0, n1 |-> 0, n2 |-> 0, repaintEndY |-> 0,
            repaintPage |-> 0]

\* lines 218-230; the frame holds the source's locals and, as observations,
\* the page the title and the content started on, the page the first pass
\* ended on, the length of the paint log when the first pass ended (n1) and
\* when the repaint started (n2), and the cursor and page the repaint ended on
styledFirstPass(b, content) ==
    With(checkAndAddPage(b, 15 * Unit), LAMBDA b1 :
    With(Advance(b1, 5 * Unit), LAMBDA b2 :
    With(Advance(addSectionTitle(b2), 2 * Unit), LAMBDA b3 :
    With(runContent(b3, content), LAMBDA b4 :
    With(Advance(b4, 5 * Unit), LAMBDA b5 :
    LET startY == b1.y
        contentStartY == b3.y
        contentEndY == b4.y
    IN  [b |-> b5,
         f |-> [content |-> content, startY |-> startY,
                contentStartY |-> contentStartY, contentEndY |-> contentEndY,
                endY |-> b5.y, titlePage |-> b1.pageNumber,
                startPage |-> b3.pageNumber, endPage |-> b5.pageNumber,
                n1 |-> Len(b5.log), n2 |-> Len(b5.log),
                repaintEndY |-> 0, repaintPage |-> 0]])))))

\* Math.floor((startY-0.1) / pageHeight) !== Math.floor((endY-0.1) / pageHeight)
spansPageBreak(f) ==
    (f.startY - Unit \div 10) \div pageHeight # (f.endY - Unit \div 10) \div pageHeight

\* lines 243-244, skipped by the early-return branch
styledBox(b, f) ==
    IF spansPageBreak(f) THEN b
    ELSE Paint(b, "fill", "box", MARGIN, f.startY, f.endY - f.startY)

\* this.y = contentStartY - 7 (lines 235 and 247)
styledRewind(b, f) == [b EXCEPT !.y = f.contentStartY - 7 * Unit]

\* the repaint without the second content() call
styledRepaint_TitleOnly(b, f) == Advance(addSectionTitle(b), 2 * Unit)

\* lines 236-238 and 248-250
styledRepaint(b, f) ==
    With(Advance(addSectionTitle(b), 2 * Unit),
         LAMBDA b1 : runContent(b1, f.content))

\* the return without this.y = endY
styledRestore_Skip(b, f) == b

\* this.y = endY (lines 239 and 251)
styledRestore(b, f) == [b EXCEPT !.y = f.endY]

\* the whole of addStyledSection
addStyledSection(b, content) ==
    With(styledFirstPass(b, content), LAMBDA r :
    With(styledRewind(styledBox(r.b, r.f), r.f), LAMBDA b1 :
    styledRestore(styledRepaint(b1, r.f), r.f)))

----------------------------------------------------------------------------
(* Heights, as the renderers measure them *)

RECURSIVE Sum(_)
Sum(seq) == IF seq = <<>> THEN 0 ELSE Head(seq) + Sum(Tail(seq))

RECURSIVE Max(_)
Max(seq) ==
    IF seq = <<>> THEN 0
    ELSE LET rest == Max(Tail(seq)) IN IF Head(seq) > rest THEN Head(seq) ELSE rest

\* the heights addBulletList measures for its items when the font size is
\* `size` at the call: every item painted leaves the body size active
RECURSIVE ItemHeights(_, _)
ItemHeights(size, items) ==
    IF items = <<>> THEN <<>>
    ELSE <<Wrapped(Head(items), size, contentWidth - 5 * Unit) * TextLineHeight>>
         \o ItemHeights(FONT_SIZES.BODY, Tail(items))

\* the height of the list's tallest item (of its "None listed" line)
TallestItem(b, items) ==
    IF Len(items) = 0
    THEN splitTextToSize(b, Text(1), contentWidth) * TextLineHeight
    ELSE Max(ItemHeights(b.font.size, items))

\* the heights of the blocks of a content procedure run when the font size
\* is `size`
RECURSIVE BlockHeights(_, _)
BlockHeights(content, size) ==
    IF content = <<>> THEN <<>>
    ELSE LET blk == Head(content)
             measured == blk.t = "bullets" \/ (blk.t = "body" /\ blk.text # Undefined)
             h == CASE blk.t = "body" ->
                         IF blk.text = Undefined THEN 0
                         ELSE Wrapped(blk.text, size, contentWidth) * TextLineHeight
                    [] blk.t = "bullets" ->
                         IF Len(blk.items) = 0
                         THEN Wrapped(Text(1), size, contentWidth) * TextLineHeight
                         ELSE Sum(ItemHeights(size, blk.items))
                    [] blk.t = "gap" -> 2 * Unit
         IN  <<h>> \o BlockHeights(Tail(content),
                                   IF measured THEN FONT_SIZES.BODY ELSE size)

----------------------------------------------------------------------------
(* Inputs *)

\* texts of one or two lines, and texts that, measured in the font of a
\* fresh page (the page header's), fill the page to within 40 mm; the longest
\* are taller than the usable height
BodyLineChoices ==
    {n \in 1..MaxLines :
        n <= 2 \/ Wrapped(Text(n), FONT_SIZES.SMALL, contentWidth) * TextLineHeight
                     + 40 * Unit >= Usable}
BodyTexts == {Undefined} \cup {Text(n) : n \in BodyLineChoices}
FontStyles == {"normal", "bold"}

ItemTexts == {Text(1), Text(3)}
ItemLists == UNION {[1..k -> ItemTexts] : k \in 0..MaxItems}

\* up to MaxRows candidates, and the least count whose table is taller than
\* the usable height
RowCounts == (0..MaxRows) \cup {Usable \div rowHeight}

FlagLists ==
    UNION {[1..k -> [head : {Text(1)}, flag : {Text(1), Text(2)}]] : k \in 0..MaxFlags}
\* absent, short, and as tall as a whole page
Reasonings == {Undefined, Text(1), Text(3), Text(pageHeight \div TextLineHeight)}
Contents ==
    {renderBiasAnalysis(fl) : fl \in FlagLists}
    \cup {renderRecommendation(Text(1), r) : r \in Reasonings}

\* the heights the source passes to checkAndAddPage as literals, and the gaps
\* generatePdf and addCandidateDetails add to y directly
CheckHeights == {10 * Unit, 15 * Unit, 20 * Unit, 80 * Unit, 150 * Unit}
Gaps == {5 * Unit, 10 * Unit}

----------------------------------------------------------------------------
(* The state machine: a fresh builder, then any sequence of at most        *)
(* MaxCalls calls on it.  log, checks and invoked cover the current call.  *)

B == [y |-> y, pageNumber |-> pageNumber, numPages |-> numPages,
      font |-> font, textColor |-> textColor, headers |-> headers,
      log |-> log, checks |-> checks, invoked |-> invoked,
      currentPage |-> currentPage]

Start == [B EXCEPT !.log = <<>>, !.checks = <<>>, !.invoked = 0]

Set(b) ==
    /\ y' = b.y
    /\ pageNumber' = b.pageNumber
    /\ numPages' = b.numPages
    /\ font' = b.font
    /\ textColor' = b.textColor
    /\ headers' = b.headers
    /\ log' = b.log
    /\ checks' = b.checks
    /\ invoked' = b.invoked
    /\ currentPage' = b.currentPage

CanCall == pc = "idle" /\ ncalls < MaxCalls

\* the report being assembled, the index of its forEach, the outline
\* emitted so far, whether the backend may raise and the error thrown to the
\* caller belong to a run of generatePdf, and the raw result to the
\* application; the calls made on a builder alone leave them as they are
NoResult ==
    [parsed_job_description |-> [role |-> Undefined],
     ranked_candidates |-> <<>>,
     bias_analysis |-> [bias_flags |-> <<>>],
     final_recommendation |-> [top_candidate |-> Undefined,
                               reasoning |-> Undefined]]
NoError == "none"
NoFile == <<>>
assembly == <<result, index, outline, faulty, thrown, rawResult, fileName>>

\* the record of a call: its name, the height it asks room for, its argument,
\* and the cursor, page and active font it was made at
Called(op, req, arg) ==
    [op |-> op, req |-> req, arg |-> arg, y0 |-> y, page0 |-> pageNumber,
     font0 |-> font]

ReturnOf(op, req, arg, b) ==
    /\ \E done \in {b} : Set(done)
    /\ call' = Called(op, req, arg)
    /\ ncalls' = ncalls + 1
    /\ pc' = "idle"
    /\ frame' = NoFrame
    /\ UNCHANGED <<assembly, ui>>

Return(op, req, b) == ReturnOf(op, req, <<>>, b)

\* new PdfBuilder(): y = 0, pageNumber = 0, a document of one page in the
\* backend's default font (16 pt normal) and text colour (black), then
\* addPage()
PdfBuilder ==
    addPage([y |-> 0, pageNumber |-> 0, numPages |-> 1,
             font |-> [size |-> 16, style |-> "normal"],
             textColor |-> <<0, 0, 0>>, headers |-> <<0>>,
             log |-> <<>>, checks |-> <<>>, invoked |-> 0, currentPage |-> 1])

Init ==
    LET b == PdfBuilder
    IN  /\ y = b.y
        /\ pageNumber = b.pageNumber
        /\ numPages = b.numPages
        /\ font = b.font
        /\ textColor = b.textColor
        /\ headers = b.headers
        /\ log = b.log
        /\ checks = b.checks
        /\ invoked = b.invoked
        /\ currentPage = b.currentPage
        /\ pc = "idle"
        /\ frame = NoFrame
        /\ call = [op |-> "constructor", req |-> 0, arg |-> <<>>,
                   y0 |-> 0, page0 |-> 0,
                   font0 |-> [size |-> 16, style |-> "normal"]]
        /\ ncalls = 0
        /\ result = NoResult
        /\ index = 0
        /\ outline = <<>>
        /\ faulty = FALSE
        /\ thrown = NoError
        /\ rawResult = Undefined
        /\ fileName = NoFile
        /\ Mounted

AddPage == CanCall /\ Return("addPage", 0, addPage(Start))

CheckAndAddPage ==
    /\ CanCall
    /\ \E h \in CheckHeights : Return("checkAndAddPage", h, checkAndAddPage(Start, h))

AdvanceY ==
    /\ CanCall
    /\ \E d \in Gaps : Return("advance", d, Advance(Start, d))

AddHeader == CanCall /\ Return("addHeader", 20 * Unit, addHeader(Start))

AddSubheader == CanCall /\ Return("addSubheader", 15 * Unit, addSubheader(Start))

AddSectionTitle == CanCall /\ Return("addSectionTitle", 10 * Unit, addSectionTitle(Start))

AddBodyText ==
    /\ CanCall
    /\ \E text \in BodyTexts, fontStyle \in FontStyles :
          ReturnOf("addBodyText",
                   IF text = Undefined THEN 0
                   ELSE splitTextToSize(Start, text, contentWidth) * TextLineHeight,
                   text, addBodyText(Start, text, fontStyle))

AddBulletList ==
    /\ CanCall
    /\ \E items \in ItemLists :
          ReturnOf("addBulletList", TallestItem(Start, items), items,
                   addBulletList(Start, items))

AddScoreGrid == CanCall /\ Return("addScoreGrid", 20 * Unit, addScoreGrid(Start))

AddSummaryTable ==
    /\ CanCall
    /\ \E n \in RowCounts :
          Return("addSummaryTable", (n + 1) * rowHeight, addSummaryTable(Start, n))

AddSeparator == CanCall /\ Return("addSeparator", 10 * Unit, addSeparator(Start))

\* the footers go on the pages painted before: the paints of the preceding
\* call stay in the log, and the call record holds their number
FinalizeAndAddFooters ==
    /\ CanCall
    /\ ReturnOf("finalizeAndAddFooters", 0, Len(log),
                finalizeAndAddFooters([B EXCEPT !.checks = <<>>, !.invoked = 0]))

StyledFirstPass ==
    /\ CanCall
    /\ \E content \in Contents :
          LET r == styledFirstPass(Start, content)
          IN  /\ Set(r.b)
              /\ frame' = r.f
    /\ call' = Called("addStyledSection", 0, <<>>)
    /\ pc' = "test"
    /\ UNCHANGED <<ncalls, assembly, ui>>

StyledBoxAndRewind ==
    /\ pc = "test"
    /\ LET b == styledBox(B, frame)
       IN  /\ Set(styledRewind(b, frame))
           /\ frame' = [frame EXCEPT !.n2 = Len(b.log)]
    /\ pc' = "repaint"
    /\ UNCHANGED <<call, ncalls, assembly, ui>>

StyledRepaint ==
    /\ pc = "repaint"
    /\ LET b == styledRepaint(B, frame)
       IN  /\ Set(b)
           /\ frame' = [frame EXCEPT !.repaintEndY = b.y,
                                     !.repaintPage = b.pageNumber]
    /\ pc' = "restore"
    /\ UNCHANGED <<call, ncalls, assembly, ui>>

StyledRestore ==
    /\ pc = "restore"
    /\ Set(styledRestore(B, frame))
    /\ pc' = "idle"
    /\ ncalls' = ncalls + 1
    /\ UNCHANGED <<frame, call, assembly, ui>>

Next ==
    \/ AddPage
    \/ CheckAndAddPage
    \/ AdvanceY
    \/ AddHeader
    \/ AddSubheader
    \/ AddSectionTitle
    \/ AddBodyText
    \/ AddBulletList
    \/ AddScoreGrid
    \/ AddSummaryTable
    \/ AddSeparator
    \/ FinalizeAndAddFooters
    \/ StyledFirstPass
    \/ StyledBoxAndRewind
    \/ StyledRepaint
    \/ StyledRestore

Spec == Init /\ [][Next]_vars

----------------------------------------------------------------------------
(* generatePdf and addCandidateDetails: the stretches of builder calls      *)
(* between the points the outline is observed at.  The fixed texts and the  *)
(* short formatted ones (date, "Overall Match: N%") are one-line texts.     *)

\* a string is the sequence of its characters ("nbsp" for U+00A0); the
\* characters \s matches, of those in use here
Whitespace == {" ", "\t", "\n", "nbsp"}

\* `Role Analyzed: ${role}`: the label and the characters of the role, in mm
\* at body size
roleLine(role) == <<25 + 2 * Len(role)>>

\* lines 287-291
cover(b, role) ==
    With(Advance(addHeader(b), 5 * Unit), LAMBDA b1 :
    With(addBodyText(b1, roleLine(role), "bold"), LAMBDA b2 :
    With(addBodyText(b2, Text(1), "normal"), LAMBDA b3 :
    addSeparator(b3))))

\* lines 294-295
summary(b, ranked_candidates) ==
    With(addSubheader(b),
         LAMBDA b1 : addSummaryTable(b1, Len(ranked_candidates)))

\* the page started only if the subheading does not fit
detailsPage_IfNeeded(b) == checkAndAddPage(b, 15 * Unit)

\* line 298
detailsPage(b) == addPage(b)

\* lines 299-300
detailsHeading(b) == Advance(addSubheader(b), 5 * Unit)

\* the capacity check made for the candidate's title alone
candidateCheck_Title(b) == checkAndAddPage(b, 10 * Unit)

\* lines 256-257: estimatedHeight = 150
candidateCheck(b) == checkAndAddPage(b, 150 * Unit)

\* lines 257-267: the capacity check, the candidate's title, the overall
\* line, the score grid and the "Reasoning for Rank" title
candidateHead(b) ==
    With(candidateCheck(b), LAMBDA b0 :
    With(addSectionTitle(b0), LAMBDA b1 :
    With(Advance(addBodyText(b1, Text(1), "bold"), 5 * Unit), LAMBDA b2 :
    With(Advance(addScoreGrid(b2), 5 * Unit), LAMBDA b3 :
    addSectionTitle(b3)))))

\* lines 268-269
candidateReasoning(b, candidate) ==
    Advance(addBodyText(b, candidate.reasoning, "normal"), 5 * Unit)

\* lines 271-280
candidateLists(b, candidate) ==
    With(addSectionTitle(b), LAMBDA t1 :
    With(addBulletList(t1, candidate.strengths), LAMBDA b1 :
    With(addSectionTitle(Advance(b1, 5 * Unit)), LAMBDA t2 :
    With(addBulletList(t2, candidate.weaknesses), LAMBDA b2 :
    With(addSectionTitle(Advance(b2, 5 * Unit)), LAMBDA t3 :
    addBulletList(t3, candidate.fit_assessment))))))

\* a separator after every candidate, the last included
separatorBetween_Always(i, n) == TRUE

\* line 304: index < result.ranked_candidates.length - 1
separatorBetween(i, n) == i < n - 1

\* lines 310-311
closing(b) ==
    With(checkAndAddPage(b, 80 * Unit), LAMBDA b1 : addSeparator(b1))

\* lines 313-326
biasSection(b, bias_flags) ==
    Advance(addStyledSection(b, renderBiasAnalysis(bias_flags)), 10 * Unit)

\* lines 328-332
recommendationSection(b, top_candidate, reasoning) ==
    addStyledSection(b, renderRecommendation(top_candidate, reasoning))

----------------------------------------------------------------------------
(* The reports generatePdf is run on *)

\* a candidate at a rank: a short or a long reasoning, and one list of
\* points taken for its strengths and its fit assessment (no weaknesses)
CandidateKinds ==
    [reasoning : {Text(1), Text(30)}, points : {<<Text(1)>>, <<Text(1), Text(3)>>}]

CandidateResult(rank, kind) ==
    [rank |-> rank, reasoning |-> kind.reasoning, strengths |-> kind.points,
     weaknesses |-> <<>>, fit_assessment |-> kind.points]

\* the lists processAnalysis hands over: rank = position
RankedCandidates ==
    UNION {{[i \in 1..n |-> CandidateResult(i, kinds[i])] :
               kinds \in [1..n -> CandidateKinds]} : n \in 0..MaxCandidates}

JobRole == <<"H", "R", " ", "L", "e", "a", "d">>

AnalysisResults ==
    [parsed_job_description : [role : {JobRole}],
     ranked_candidates : RankedCandidates,
     bias_analysis : [bias_flags : FlagLists],
     final_recommendation : [top_candidate : {Text(1)}, reasoning : Reasonings]]

----------------------------------------------------------------------------
(* generatePdf as a state machine: one step per stretch.  The log holds the *)
(* whole document; checks and invoked cover the current step, and the call  *)
(* record holds the number of paints made before it.                        *)

Resume == [B EXCEPT !.checks = <<>>, !.invoked = 0]

\* the errors a backend operation may raise
BackendErrors == {"RangeError", "QuotaExceededError"}

\* the error caught and another one thrown in its place
propagate_Wrapped(e) == "GenerationError"

\* generatePdf has no try / catch: what a backend operation raises leaves
\* generatePdf as it is
propagate(e) == e

\* a backend operation of the stretch that would leave the builder as b
\* raises: the paints before it were made (all of the stretch's but the last,
\* at most), the rest of generatePdf is not run, and the builder, local to
\* generatePdf, is left as the stretch found it
Raises(b) ==
    /\ faulty
    /\ \E e \in BackendErrors, k \in Len(log)..(Len(b.log) - 1) :
          /\ log' = SubSeq(b.log, 1, k)
          /\ call' = Called("raise", 0, e)
          /\ thrown' = propagate(e)
    /\ pc' = "raised"
    /\ UNCHANGED <<y, pageNumber, numPages, font, textColor, headers, checks,
                   invoked, frame, ncalls, result, outline, faulty,
                   rawResult, fileName,
                   currentPage,
                   ui>>

\* the stretch runs to its end
Completes(op, req, b, next, emitted) ==
    /\ Set(b)
    /\ call' = Called(op, req, Len(log))
    /\ ncalls' = ncalls + 1
    /\ pc' = next
    /\ outline' = outline \o emitted
    /\ UNCHANGED <<frame, result, faulty, thrown, rawResult, fileName,
                   ui>>

Step(op, req, b, next, emitted) ==
    \E done \in {b} :
       \/ Completes(op, req, done, next, emitted)
       \/ Raises(done)

\* line 284: const builder = new PdfBuilder(), for a report out of `results`
\* and a backend that may raise or never does
GenStart(results, mayRaise) ==
    LET b == PdfBuilder
    IN  /\ result \in results
        /\ y = b.y
        /\ pageNumber = b.pageNumber
        /\ numPages = b.numPages
        /\ font = b.font
        /\ textColor = b.textColor
        /\ headers = b.headers
        /\ log = b.log
        /\ checks = b.checks
        /\ invoked = b.invoked
        /\ currentPage = b.currentPage
        /\ pc = "cover"
        /\ frame = NoFrame
        /\ call = [op |-> "constructor", req |-> 0, arg |-> <<>>,
                   y0 |-> 0, page0 |-> 0,
                   font0 |-> [size |-> 16, style |-> "normal"]]
        /\ ncalls = 0
        /\ index = 0
        /\ outline = <<>>
        /\ faulty = mayRaise
        /\ thrown = NoError
        /\ rawResult = Undefined
        /\ fileName = NoFile
        /\ Mounted

GenInit == GenStart(AnalysisResults, FALSE)

Entry(item) == <<item, 0>>

Cover ==
    /\ pc = "cover"
    /\ Step("cover", 0, cover(Resume, result.parsed_job_description.role), "summary",
            <<Entry("heading"), Entry("role"), Entry("date"), Entry("separator")>>)
    /\ UNCHANGED index

Summary ==
    /\ pc = "summary"
    /\ Step("summary", (Len(result.ranked_candidates) + 1) * rowHeight,
            summary(Resume, result.ranked_candidates), "detailsPage",
            <<Entry("summaryHeading"), Entry("summaryTable")>>)
    /\ UNCHANGED index

DetailsPage ==
    /\ pc = "detailsPage"
    /\ Step("detailsPage", 0, detailsPage(Resume), "detailsHeading",
            <<Entry("page")>>)
    /\ UNCHANGED index

\* the forEach starts at index 0
DetailsHeading ==
    /\ pc = "detailsHeading"
    /\ Step("detailsHeading", 0, detailsHeading(Resume),
            IF 0 < Len(result.ranked_candidates) THEN "candidate" ELSE "closing",
            <<Entry("detailsHeading")>>)
    /\ index' = 0

CandidateHead ==
    /\ pc = "candidate"
    /\ Step("candidateHead", 150 * Unit, candidateHead(Resume), "reasoning",
            <<<<"candidate", result.ranked_candidates[index + 1].rank>>>>)
    /\ UNCHANGED index

CandidateReasoning ==
    /\ pc = "reasoning"
    /\ LET candidate == result.ranked_candidates[index + 1]
       IN  Step("candidateReasoning",
                IF candidate.reasoning = Undefined THEN 0
                ELSE splitTextToSize(Resume, candidate.reasoning, contentWidth)
                     * TextLineHeight,
                candidateReasoning(Resume, candidate), "lists", <<>>)
    /\ UNCHANGED index

CandidateLists ==
    /\ pc = "lists"
    /\ Step("candidateLists", 0,
            candidateLists(Resume, result.ranked_candidates[index + 1]),
            "between", <<>>)
    /\ UNCHANGED index

\* the forEach that never moves on to the next candidate
forEachNext_Same(i) == i

\* ranked_candidates.forEach: the callback is run once per index, in order
forEachNext(i) == i + 1

\* lines 304-306 and the next iteration of the forEach
CandidateSeparator ==
    /\ pc = "between"
    /\ LET n == Len(result.ranked_candidates)
           next == IF forEachNext(index) < n THEN "candidate" ELSE "closing"
       IN  IF separatorBetween(index, n)
           THEN Step("separator", 10 * Unit, addSeparator(Resume), next,
                     <<Entry("separator")>>)
           ELSE Step("noSeparator", 0, Resume, next, <<>>)
    /\ index' = forEachNext(index)

Closing ==
    /\ pc = "closing"
    /\ Step("closing", 80 * Unit, closing(Resume), "bias",
            <<Entry("check"), Entry("separator")>>)
    /\ UNCHANGED index

\* a content procedure reads a property of `what`, which the report lacks:
\* the TypeError leaves addStyledSection and generatePdf after the check and
\* the title of the section's first pass, with the builder, local to
\* generatePdf, left as the stretch found it
Dereferences(what) ==
    /\ log' = styledFirstPass(Resume, <<>>).b.log
    /\ call' = Called("dereference", 0, what)
    /\ thrown' = propagate("TypeError")
    /\ pc' = "raised"
    /\ UNCHANGED <<y, pageNumber, numPages, font, textColor, headers, checks,
                   invoked, frame, ncalls, result, outline, faulty,
                   rawResult, fileName,
                   currentPage,
                   ui>>

\* lines 313-314: result.bias_analysis.bias_flags, then flags.length
BiasSection ==
    /\ pc = "bias"
    /\ CASE result.bias_analysis = Undefined -> Dereferences("bias_analysis")
         [] "bias_flags" \notin DOMAIN result.bias_analysis ->
                Dereferences("bias_flags")
         [] OTHER ->
                Step("biasSection", 0,
                     biasSection(Resume, result.bias_analysis.bias_flags),
                     "recommendation", <<Entry("bias")>>)
    /\ UNCHANGED index

\* lines 328-330: result.final_recommendation.top_candidate and .reasoning
RecommendationSection ==
    /\ pc = "recommendation"
    /\ IF result.final_recommendation = Undefined
       THEN Dereferences("final_recommendation")
       ELSE Step("recommendationSection", 0,
                 recommendationSection(Resume,
                                       result.final_recommendation.top_candidate,
                                       result.final_recommendation.reasoning),
                 "footers", <<Entry("recommendation")>>)
    /\ UNCHANGED index

Footers ==
    /\ pc = "footers"
    /\ Step("finalizeAndAddFooters", 0, finalizeAndAddFooters(Resume), "save",
            <<Entry("footers")>>)
    /\ UNCHANGED index

\* the role with only its first whitespace character replaced
replace_First(str) ==
    [i \in 1..Len(str) |->
        IF str[i] \in Whitespace /\ \A j \in 1..(i - 1) : str[j] \notin Whitespace
        THEN "_" ELSE str[i]]

\* str.replace(/\s/g, '_')
replace(str) ==
    [i \in 1..Len(str) |-> IF str[i] \in Whitespace THEN "_" ELSE str[i]]

\* `HR_Screening_Report_${role.replace(/\s/g, '_')}.pdf`
fileNameOf(role) ==
    <<"H", "R", "_", "S", "c", "r", "e", "e", "n", "i", "n", "g", "_",
      "R", "e", "p", "o", "r", "t", "_">>
    \o replace(role) \o <<".", "p", "d", "f">>

\* builder.doc.save(...): the document as it stands is written out, under
\* the name made of the role
Save ==
    /\ pc = "save"
    /\ Set(Resume)
    /\ call' = Called("save", 0, Len(log))
    /\ ncalls' = ncalls + 1
    /\ pc' = "saved"
    /\ outline' = outline \o <<Entry("save")>>
    /\ fileName' = fileNameOf(result.parsed_job_description.role)
    /\ UNCHANGED <<frame, result, index, faulty, thrown, rawResult,
                   ui>>

\* doc.save itself raises
SaveRaises ==
    /\ pc = "save"
    /\ faulty
    /\ \E e \in BackendErrors :
          /\ call' = Called("saveRaise", 0, e)
          /\ thrown' = propagate(e)
    /\ outline' = outline \o <<Entry("save")>>
    /\ pc' = "raised"
    /\ UNCHANGED <<y, pageNumber, numPages, font, textColor, headers, log,
                   checks, invoked, frame, ncalls, result, index, faulty,
                   rawResult, fileName,
                   currentPage,
                   ui>>

\* a run on a backend that never raises
GenNext ==
    \/ Cover
    \/ Summary
    \/ DetailsPage
    \/ DetailsHeading
    \/ CandidateHead
    \/ CandidateReasoning
    \/ CandidateLists
    \/ CandidateSeparator
    \/ Closing
    \/ BiasSection
    \/ RecommendationSection
    \/ Footers
    \/ Save

GenSpec == GenInit /\ [][GenNext]_vars

\* generatePdf is one synchronous call: once invoked, it runs on until it
\* returns
GenLive == GenSpec /\ WF_vars(GenNext)

\* the reports generatePdf is run on with a backend that may raise: up to
\* MaxCandidates candidates of one kind, any flags, a recommendation of
\* three lines
FailResults ==
    [parsed_job_description : [role : {JobRole}],
     ranked_candidates :
        {[i \in 1..n |->
            CandidateResult(i, [reasoning |-> Text(30),
                                points |-> <<Text(1), Text(3)>>])] :
         n \in 0..MaxCandidates},
     bias_analysis : [bias_flags : FlagLists],
     final_recommendation : [top_candidate : {Text(1)}, reasoning : {Text(3)}]]

FailInit == GenStart(FailResults, TRUE)

FailNext ==
    \/ GenNext
    \/ SaveRaises

FailSpec == FailInit /\ [][FailNext]_vars

----------------------------------------------------------------------------
(* processAnalysis (App): the raw result of the API made into the report   *)
(* generatePdf is run on.  An object is a record; a property the object    *)
(* lacks is a field the record lacks, and {} is the record of no field.    *)

\* candidates of a raw result
MaxRaw == 3

MathMin(a, b) == IF a < b THEN a ELSE b
MathMax(a, b) == IF a > b THEN a ELSE b

\* the value left as it came
clamp_None(v) == v

\* Math.max(0, Math.min(100, v))
clamp(v) == MathMax(0, MathMin(100, v))

\* the property read with no default behind it
orDefault_None(obj, f, d) == IF f \in DOMAIN obj THEN obj[f] ELSE Undefined

\* obj.f || d
orDefault(obj, f, d) == IF f \in DOMAIN obj THEN obj[f] ELSE d

\* score || 0
orZero(obj, f) == IF f \in DOMAIN obj THEN obj[f] ELSE 0

\* the weights of the four scores, in hundredths
Weights ==
    [semantic_relevance_score |-> 45, skill_match_score |-> 30,
     experience_match_score |-> 20, education_match_score |-> 5]

\* lines 81-100; overall_match_score is held in hundredths of a point
withOverall(candidate) ==
    LET scores == orDefault(candidate, "scores", <<>>)
        semantic == clamp(orZero(scores, "semantic_relevance_score"))
        skill == clamp(orZero(scores, "skill_match_score"))
        experience == clamp(orZero(scores, "experience_match_score"))
        education == clamp(orZero(scores, "education_match_score"))
        overall_match_score ==
            semantic * Weights.semantic_relevance_score
            + skill * Weights.skill_match_score
            + experience * Weights.experience_match_score
            + education * Weights.education_match_score
    IN  [parsed_resume |-> candidate.parsed_resume,
         scores |-> [semantic_relevance_score |-> semantic,
                     skill_match_score |-> skill,
                     experience_match_score |-> experience,
                     education_match_score |-> education,
                     overall_match_score |-> overall_match_score],
         reasoning |-> candidate.reasoning,
         strengths |-> candidate.strengths,
         weaknesses |-> candidate.weaknesses,
         fit_assessment |-> candidate.fit_assessment]

\* the lower score first
compareFn_Ascending(a, b) ==
    a.scores.overall_match_score - b.scores.overall_match_score

\* line 102: (a, b) => b.scores.overall_match_score - a.scores.overall_match_score
compareFn(a, b) == b.scores.overall_match_score - a.scores.overall_match_score

\* Array.prototype.sort is stable: c goes behind every element of the sorted
\* s that the comparison does not put after it
RECURSIVE insert(_, _)
insert(s, c) ==
    IF s # <<>> /\ compareFn(c, s[Len(s)]) < 0
    THEN Append(insert(SubSeq(s, 1, Len(s) - 1), c), s[Len(s)])
    ELSE Append(s, c)

RECURSIVE sort(_)
sort(s) ==
    IF s = <<>> THEN <<>>
    ELSE insert(sort(SubSeq(s, 1, Len(s) - 1)), s[Len(s)])

\* lines 104-107: rank = index + 1
ranked(sortedCandidates) ==
    [i \in 1..Len(sortedCandidates) |->
        [rank |-> i,
         parsed_resume |-> sortedCandidates[i].parsed_resume,
         scores |-> sortedCandidates[i].scores,
         reasoning |-> sortedCandidates[i].reasoning,
         strengths |-> sortedCandidates[i].strengths,
         weaknesses |-> sortedCandidates[i].weaknesses,
         fit_assessment |-> sortedCandidates[i].fit_assessment]]

\* 'N/A' as a role, and 'N/A' and 'Final recommendation was not provided.'
\* as texts of the recommendation, by their widths
RoleNA == <<"N", "/", "A">>
NA == <<6>>
NotProvided == <<62>>

\* line 76: !rawResult || !Array.isArray(rawResult.candidate_analysis)
Malformed(raw) == raw = Undefined \/ "candidate_analysis" \notin DOMAIN raw

\* lines 81-114
processAnalysis(raw) ==
    LET candidatesWithOverall ==
            [i \in 1..Len(raw.candidate_analysis) |->
                withOverall(raw.candidate_analysis[i])]
    IN  [parsed_job_description |->
            orDefault(raw, "parsed_job_description", [role |-> RoleNA]),
         ranked_candidates |-> ranked(sort(candidatesWithOverall)),
         bias_analysis |-> orDefault(raw, "bias_analysis", [bias_flags |-> <<>>]),
         final_recommendation |->
            orDefault(raw, "final_recommendation",
                      [top_candidate |-> NA, reasoning |-> NotProvided])]

\* an object with some of its properties only
Only(obj, names) == [f \in names |-> obj[f]]

\* the scores of a raw candidate: the scenario's, all of them 100, all of
\* them 0, another set of the scenario's overall, and scores off the scale
\* with the education score missing
RawScores ==
    {[semantic_relevance_score |-> 90, skill_match_score |-> 80,
      experience_match_score |-> 70, education_match_score |-> 60],
     [semantic_relevance_score |-> 100, skill_match_score |-> 100,
      experience_match_score |-> 100, education_match_score |-> 100],
     [semantic_relevance_score |-> 0, skill_match_score |-> 0,
      experience_match_score |-> 0, education_match_score |-> 0],
     [semantic_relevance_score |-> 80, skill_match_score |-> 90,
      experience_match_score |-> 75, education_match_score |-> 70],
     [semantic_relevance_score |-> 150, skill_match_score |-> -10,
      experience_match_score |-> 101]}

\* the i-th candidate of a raw result, named by its place, with its scores
\* or with none
RawCandidate(i, scores) ==
    [parsed_resume |-> [name |-> i], scores |-> scores,
     reasoning |-> Text(1), strengths |-> <<Text(1)>>, weaknesses |-> <<>>,
     fit_assessment |-> <<Text(1)>>]

RawCandidates(i, scoresChoices) ==
    {RawCandidate(i, s) : s \in scoresChoices}
    \cup {Only(RawCandidate(i, <<>>),
               {"parsed_resume", "reasoning", "strengths", "weaknesses",
                "fit_assessment"})}

RawLists(most, scoresChoices) ==
    UNION {{l \in [1..n -> UNION {RawCandidates(i, scoresChoices) : i \in 1..n}] :
               \A i \in 1..n : l[i].parsed_resume.name = i} : n \in 0..most}

\* a raw result with everything in it, and the raw results that lack some
\* of it, the candidates included
RawResult(role, candidate_analysis, bias_analysis) ==
    [parsed_job_description |-> [role |-> role],
     candidate_analysis |-> candidate_analysis,
     bias_analysis |-> bias_analysis,
     final_recommendation |-> [top_candidate |-> Text(1), reasoning |-> Text(3)]]

Lacking ==
    {{}, {"bias_analysis"}, {"final_recommendation"}, {"parsed_job_description"},
     {"bias_analysis", "final_recommendation", "parsed_job_description"},
     {"candidate_analysis"}}

RawResultsOf(roles, lists, biases) ==
    {Only(RawResult(role, l, bias),
          {"parsed_job_description", "candidate_analysis", "bias_analysis",
           "final_recommendation"} \ lack) :
        role \in roles, l \in lists, bias \in biases, lack \in Lacking}

RawResults ==
    RawResultsOf({JobRole}, RawLists(MaxRaw, RawScores), {[bias_flags |-> <<>>]})
    \cup {Undefined}

\* no report is being made
NoBuilder ==
    [y |-> 0, pageNumber |-> 0, numPages |-> 0,
     font |-> [size |-> 16, style |-> "normal"], textColor |-> <<0, 0, 0>>,
     headers |-> <<>>, log |-> <<>>, checks |-> <<>>, invoked |-> 0,
     currentPage |-> 0]

\* the raw result is at hand (line 173), one out of `raws`
AppStart(raws) ==
    /\ rawResult \in raws
    /\ y = NoBuilder.y
    /\ pageNumber = NoBuilder.pageNumber
    /\ numPages = NoBuilder.numPages
    /\ font = NoBuilder.font
    /\ textColor = NoBuilder.textColor
    /\ headers = NoBuilder.headers
    /\ log = NoBuilder.log
    /\ checks = NoBuilder.checks
    /\ invoked = NoBuilder.invoked
    /\ currentPage = NoBuilder.currentPage
    /\ pc = "raw"
    /\ frame = NoFrame
    /\ call = [op |-> "none", req |-> 0, arg |-> <<>>, y0 |-> 0, page0 |-> 0,
               font0 |-> NoBuilder.font]
    /\ ncalls = 0
    /\ result = NoResult
    /\ index = 0
    /\ outline = <<>>
    /\ faulty = FALSE
    /\ thrown = NoError
    /\ fileName = NoFile
    /\ Mounted

\* processAnalysis taking a raw result without candidates for one with an
\* empty list of them (candidate_analysis || [])
ProcessAnalysis_Lenient ==
    /\ pc = "raw"
    /\ result' = processAnalysis(
                    IF Malformed(rawResult)
                    THEN [f \in DOMAIN rawResult \cup {"candidate_analysis"} |->
                            IF f = "candidate_analysis" THEN <<>>
                            ELSE rawResult[f]]
                    ELSE rawResult)
    /\ pc' = "processed"
    /\ call' = Called("processAnalysis", 0, <<>>)
    /\ UNCHANGED <<y, pageNumber, numPages, font, textColor, headers, log,
                   checks, invoked, frame, ncalls, index, outline, faulty,
                   thrown, rawResult, fileName, currentPage,
                   ui>>

\* processAnalysis(rawResult): the report, or the error thrown at line 78
ProcessAnalysis ==
    /\ pc = "raw"
    /\ IF Malformed(rawResult)
       THEN /\ thrown' = "Error"
            /\ pc' = "raised"
            /\ UNCHANGED result
       ELSE /\ result' = processAnalysis(rawResult)
            /\ pc' = "processed"
            /\ UNCHANGED thrown
    /\ call' = Called("processAnalysis", 0, <<>>)
    /\ UNCHANGED <<y, pageNumber, numPages, font, textColor, headers, log,
                   checks, invoked, frame, ncalls, index, outline, faulty,
                   rawResult, fileName,
                   currentPage,
                   ui>>

ProcInit == AppStart(RawResults)

ProcNext == ProcessAnalysis

ProcSpec == ProcInit /\ [][ProcNext]_vars

\* generatePdf(result) on the report processAnalysis made (line 209):
\* const builder = new PdfBuilder()
GeneratePdf ==
    /\ pc = "processed"
    /\ Set(PdfBuilder)
    /\ call' = [op |-> "constructor", req |-> 0, arg |-> <<>>,
                y0 |-> 0, page0 |-> 0,
                font0 |-> [size |-> 16, style |-> "normal"]]
    /\ pc' = "cover"
    /\ UNCHANGED <<frame, ncalls, result, index, outline, faulty, thrown,
                   rawResult, fileName,
                   ui>>

\* the raw results whose report is generated: up to two candidates, of the
\* scenario's scores or of none, and a bias analysis of no flag, of one, or
\* with its list under another name
Roles ==
    {JobRole, <<>>, <<"Q", "A", " ", " ", "\t", "I", "I", "\n">>,
     <<"nbsp", "_", "C", "/", "C", "+", "+">>}

ReportRaws ==
    RawResultsOf(Roles,
                 RawLists(2, {CHOOSE s \in RawScores :
                                    s.semantic_relevance_score = 90}),
                 {[bias_flags |-> <<>>],
                  [bias_flags |-> <<[head |-> Text(1), flag |-> Text(2)]>>],
                  [flags |-> <<>>]})

ReportInit == AppStart(ReportRaws)

ReportNext ==
    \/ ProcessAnalysis
    \/ GeneratePdf
    \/ GenNext

ReportSpec == ReportInit /\ [][ReportNext]_vars

----------------------------------------------------------------------------
(* handleAnalyze (App, part_002 lines 117-188).  An invocation is a record  *)
(* of `runs`: its position, its local variables and its promises.  Every    *)
(* await splits the handler: the code between two awaits is one step.       *)

\* invocations of handleAnalyze, and resume files of one invocation
MaxRuns == 2
MaxResumes == 2

\* the generator's side of the state, which the handler leaves alone
generation ==
    <<y, pageNumber, numPages, font, textColor, headers, log, checks,
      invoked, currentPage, pc, frame, call, ncalls, index, outline, faulty,
      thrown, fileName>>

RECURSIVE trimStart(_)
trimStart(str) ==
    IF str # <<>> /\ Head(str) \in Whitespace THEN trimStart(Tail(str))
    ELSE str

RECURSIVE trimEnd(_)
trimEnd(str) ==
    IF str # <<>> /\ str[Len(str)] \in Whitespace
    THEN trimEnd(SubSeq(str, 1, Len(str) - 1))
    ELSE str

\* jobDescription.trim()
trim(str) == trimEnd(trimStart(str))

\* line 118: jdInputMethod === 'text' && jobDescription.trim()
isJdTextValid(jdInputMethod, jobDescription) ==
    jdInputMethod = "text" /\ trim(jobDescription) # <<>>

\* line 119: jdInputMethod === 'file' && jobDescriptionFile
isJdFileValid(jdInputMethod, jobDescriptionFile) ==
    jdInputMethod = "file" /\ jobDescriptionFile # Undefined

\* what the user may have typed and chosen when the button is pressed
JobDescriptions == {<<>>, <<" ", "\n">>, <<" ", "Q", "A", " ">>}
JobDescriptionFiles == {Undefined, [type |-> "application/pdf"]}

\* the message of line 122
PleaseProvide == "Please provide a job description and at least one resume file."

\* what a promise is rejected with: the errors callGemini throws (part_001,
\* lines 104-121), the TypeError of reading a property of null, and the
\* event a FileReader hands to reject (line 71), which is no Error
EmptyResponse ==
    [instanceofError |-> TRUE,
     message |-> "The model returned an empty response. Please try again."]
InvalidJson ==
    [instanceofError |-> TRUE,
     message |-> "The model returned an invalid JSON format. Check the console for the raw response."]
TypeErrorOfNull ==
    [instanceofError |-> TRUE, message |-> "Cannot read properties of null"]
ReaderEvent == [instanceofError |-> FALSE]

ApiErrors == {EmptyResponse, InvalidJson}

\* line 182: e instanceof Error ? e.message : 'An unknown error occurred.'
messageOf(e) ==
    IF e.instanceofError THEN e.message ELSE "An unknown error occurred."

\* the loading messages of lines 134, 150, 157 and 165
AnalyzingJd == <<"Analyzing job description...">>
AnalyzingOf(k, n) == <<"Analyzing", k, "of", n, "candidates...">>
AnalyzedOf(k, n) == <<"Analyzed", k, "of", n, "candidates...">>
GeneratingReport == <<"Generating final report...">>

\* Math.round(num / den) for num >= 0: halves go up
round(num, den) == (2 * num + den) \div (2 * den)

\* line 156: 5 + Math.round((completedResumes / totalResumes) * 90); the
\* quotient and product are exact enough in floating point for the totals
\* explored that Math.round sees the same half-way cases
progressOf(completedResumes, totalResumes) ==
    5 + round(completedResumes * 90, totalResumes)

\* an invocation that got past the validation: totalResumes is
\* resumeFiles.length (resumeParts has one part for each file)
Run(at, n, called) ==
    [pc |-> at, totalResumes |-> n, completedResumes |-> 0,
     analyses |-> [i \in 1..n |-> "none"],
     candidateAnalyses |-> [i \in 1..n |-> Undefined],
     parsedJd |-> Undefined, called |-> called, reason |-> Undefined]

\* the values the API resolves with
ParsedJds == {[role |-> JobRole]}

AnalysisValues(i) ==
    RawCandidates(i, {CHOOSE s \in RawScores : s.semantic_relevance_score = 90})

FinalSummaries ==
    {[bias_analysis |-> [bias_flags |-> <<>>],
      final_recommendation |-> [top_candidate |-> Text(1), reasoning |-> Text(3)]],
     [bias_analysis |-> [bias_flags |-> <<>>]],
     Undefined}

\* lines 169-174: the raw result put together; a property the summary
\* lacks is undefined in it
rawAnalysisResult(parsedJd, candidateAnalyses, finalSummary) ==
    LET own == [parsed_job_description |-> parsedJd,
                candidate_analysis |-> candidateAnalyses]
    IN  [f \in DOMAIN own
               \cup (DOMAIN finalSummary
                       \cap {"bias_analysis", "final_recommendation"}) |->
            IF f \in DOMAIN own THEN own[f] ELSE finalSummary[f]]

\* the invocation in progress is at `at`
Running(at) == runs # <<>> /\ runs[Len(runs)].pc = at

At(at) == [runs EXCEPT ![Len(runs)].pc = at]

\* the catch without the finally: the error is set, the indicator stays
Fails_NoFinally(e, said) ==
    /\ error' = messageOf(e)
    /\ runs' = At("failed")
    /\ reported' = reported \o said
    /\ UNCHANGED <<loading, loadingMessage, progress, result, rawResult,
                   isGeneratingPdf, generation>>

\* lines 180-187: catch and finally, after the values `said` were handed to
\* setProgress in the try block
Fails(e, said) ==
    /\ error' = messageOf(e)
    /\ loading' = FALSE
    /\ loadingMessage' = <<>>
    /\ progress' = 0
    /\ runs' = At("failed")
    /\ reported' = reported \o said \o <<0>>
    /\ UNCHANGED <<result, rawResult, isGeneratingPdf, generation>>

\* lines 117-140, up to the first await: the button is disabled while
\* loading (line 444)
HandleAnalyze ==
    /\ ~loading
    /\ Len(runs) < MaxRuns
    /\ \E jdInputMethod \in {"text", "file"},
          jobDescription \in JobDescriptions,
          jobDescriptionFile \in JobDescriptionFiles,
          n \in 0..MaxResumes :
          LET textValid == isJdTextValid(jdInputMethod, jobDescription)
              fileValid == isJdFileValid(jdInputMethod, jobDescriptionFile)
          IN  IF (~textValid /\ ~fileValid) \/ n = 0
              THEN /\ error' = PleaseProvide
                   /\ runs' = Append(runs, Run("refused", n, {}))
                   /\ UNCHANGED <<loading, loadingMessage, progress, result,
                                  reported>>
              ELSE /\ loading' = TRUE
                   /\ error' = null
                   /\ result' = NoResult
                   /\ progress' = 0
                   /\ reported' = <<0>>
                   /\ loadingMessage' = AnalyzingJd
                   /\ runs' = Append(runs,
                                IF fileValid THEN Run("jdFile", n, {"fileToPart"})
                                ELSE Run("jd", n, {"analyzeJobDescription"}))
    /\ UNCHANGED <<rawResult, isGeneratingPdf, generation>>

\* line 137: await fileToPart(jobDescriptionFile), then line 141
JdFileSettles ==
    /\ Running("jdFile")
    /\ \/ /\ runs' = [runs EXCEPT ![Len(runs)].pc = "jd",
                                  ![Len(runs)].called =
                                        @ \cup {"analyzeJobDescription"}]
          /\ UNCHANGED <<loading, loadingMessage, error, progress, reported,
                         result, rawResult, isGeneratingPdf, generation>>
       \/ Fails(ReaderEvent, <<>>)

\* lines 141-146: await analyzeJobDescription(...), setProgress(5), the
\* resume files read
JdSettles ==
    /\ Running("jd")
    /\ \/ \E parsedJd \in ParsedJds :
             /\ progress' = 5
             /\ reported' = Append(reported, 5)
             /\ runs' = [runs EXCEPT ![Len(runs)].pc = "parts",
                                     ![Len(runs)].parsedJd = parsedJd,
                                     ![Len(runs)].called = @ \cup {"fileToPart"}]
             /\ UNCHANGED <<loading, loadingMessage, error, result, rawResult,
                            isGeneratingPdf, generation>>
       \/ \E e \in ApiErrors : Fails(e, <<>>)

\* lines 146-164: await Promise.all(resumeFiles.map(fileToPart)), the
\* counter, the message and one analyzeSingleResume per part, each with its
\* then-callback
PartsSettle ==
    /\ Running("parts")
    /\ \/ LET run == runs[Len(runs)]
          IN  /\ loadingMessage' = AnalyzingOf(1, run.totalResumes)
              /\ runs' = [runs EXCEPT
                            ![Len(runs)].pc = "resumes",
                            ![Len(runs)].completedResumes = 0,
                            ![Len(runs)].analyses =
                                [i \in 1..run.totalResumes |-> "pending"],
                            ![Len(runs)].called = @ \cup {"analyzeSingleResume"}]
              /\ UNCHANGED <<loading, error, progress, reported, result,
                             rawResult, isGeneratingPdf, generation>>
       \/ Fails(ReaderEvent, <<>>)

\* the then-callback counting by the place of the resume in the list
thenCallback_ByIndex(run, i, value) ==
    [run EXCEPT !.completedResumes = i,
                !.analyses[i] = "fulfilled",
                !.candidateAnalyses[i] = value]

\* lines 153-158, on the locals of the invocation: completedResumes++, and
\* the value passed on to Promise.all
thenCallback(run, i, value) ==
    [run EXCEPT !.completedResumes = @ + 1,
                !.analyses[i] = "fulfilled",
                !.candidateAnalyses[i] = value]

\* analyzeSingleResume of resume i of invocation r resolves and its
\* then-callback runs, whatever has become of the invocation
AnalysisResolves ==
    \E r \in 1..Len(runs) :
       \E i \in 1..runs[r].totalResumes :
          /\ runs[r].analyses[i] = "pending"
          /\ \E value \in AnalysisValues(i) :
                \E run \in {thenCallback(runs[r], i, value)} :
                   /\ progress' = progressOf(run.completedResumes,
                                             run.totalResumes)
                   /\ reported' = Append(reported, progress')
                   /\ loadingMessage' = AnalyzedOf(run.completedResumes,
                                                   run.totalResumes)
                   /\ runs' = [runs EXCEPT ![r] = run]
          /\ UNCHANGED <<loading, error, result, rawResult, isGeneratingPdf,
                         generation>>

\* analyzeSingleResume of resume i of invocation r rejects: the callback is
\* skipped; the first reason is the one Promise.all rejects with
AnalysisRejects ==
    \E r \in 1..Len(runs) :
       \E i \in 1..runs[r].totalResumes :
          /\ runs[r].analyses[i] = "pending"
          /\ \E e \in ApiErrors :
                runs' = [runs EXCEPT
                            ![r].analyses[i] = "rejected",
                            ![r].reason = IF @ = Undefined THEN e ELSE @]
          /\ UNCHANGED <<loading, loadingMessage, error, progress, reported,
                         result, rawResult, isGeneratingPdf, generation>>

\* a Promise.all that waits for every promise and keeps what was fulfilled
PromiseAll_Settled(analyses) ==
    IF \E i \in DOMAIN analyses : analyses[i] = "pending" THEN "pending"
    ELSE "fulfilled"

\* Promise.all(candidateAnalysesPromises): rejected as soon as one promise
\* is, fulfilled when all are
PromiseAll(analyses) ==
    IF \E i \in DOMAIN analyses : analyses[i] = "rejected" THEN "rejected"
    ELSE IF \A i \in DOMAIN analyses : analyses[i] = "fulfilled" THEN "fulfilled"
    ELSE "pending"

\* lines 162-166: the await of Promise.all returns or throws
ResumesSettle ==
    /\ Running("resumes")
    /\ LET run == runs[Len(runs)]
       IN  \/ /\ PromiseAll(run.analyses) = "fulfilled"
              /\ loadingMessage' = GeneratingReport
              /\ runs' = [runs EXCEPT ![Len(runs)].pc = "summary",
                                      ![Len(runs)].called =
                                            @ \cup {"getFinalSummary"}]
              /\ UNCHANGED <<loading, error, progress, reported, result,
                             rawResult, isGeneratingPdf, generation>>
           \/ /\ PromiseAll(run.analyses) = "rejected"
              /\ Fails(run.reason, <<>>)

\* lines 166-187: await getFinalSummary(...), setProgress(100), the raw
\* result, processAnalysis, setResult, and the finally block
SummarySettles ==
    /\ Running("summary")
    /\ LET run == runs[Len(runs)]
       IN  \/ \E finalSummary \in FinalSummaries :
                 IF finalSummary = Undefined
                 THEN Fails(TypeErrorOfNull, <<100>>)
                 ELSE LET raw == rawAnalysisResult(run.parsedJd,
                                                   run.candidateAnalyses,
                                                   finalSummary)
                      IN  /\ ~Malformed(raw)
                          /\ rawResult' = raw
                          /\ result' = processAnalysis(raw)
                          /\ loading' = FALSE
                          /\ loadingMessage' = <<>>
                          /\ progress' = 0
                          /\ reported' = reported \o <<100, 0>>
                          /\ runs' = [runs EXCEPT
                                        ![Len(runs)].pc = "succeeded",
                                        ![Len(runs)].called =
                                            @ \cup {"processAnalysis"}]
                          /\ UNCHANGED <<error, isGeneratingPdf, generation>>
           \/ \E e \in ApiErrors : Fails(e, <<>>)

\* the App mounted, nothing analysed
AnalyzeInit ==
    /\ Mounted
    /\ y = NoBuilder.y
    /\ pageNumber = NoBuilder.pageNumber
    /\ numPages = NoBuilder.numPages
    /\ font = NoBuilder.font
    /\ textColor = NoBuilder.textColor
    /\ headers = NoBuilder.headers
    /\ log = NoBuilder.log
    /\ checks = NoBuilder.checks
    /\ invoked = NoBuilder.invoked
    /\ currentPage = NoBuilder.currentPage
    /\ pc = "mounted"
    /\ frame = NoFrame
    /\ call = [op |-> "none", req |-> 0, arg |-> <<>>, y0 |-> 0, page0 |-> 0,
               font0 |-> NoBuilder.font]
    /\ ncalls = 0
    /\ result = NoResult
    /\ index = 0
    /\ outline = <<>>
    /\ faulty = FALSE
    /\ thrown = NoError
    /\ rawResult = Undefined
    /\ fileName = NoFile

\* the promises of an invocation settle
Settles ==
    \/ JdFileSettles
    \/ JdSettles
    \/ PartsSettle
    \/ AnalysisResolves
    \/ AnalysisRejects
    \/ ResumesSettle
    \/ SummarySettles

AnalyzeNext ==
    \/ HandleAnalyze
    \/ JdFileSettles
    \/ JdSettles
    \/ PartsSettle
    \/ AnalysisResolves
    \/ AnalysisRejects
    \/ ResumesSettle
    \/ SummarySettles

AnalyzeSpec == AnalyzeInit /\ [][AnalyzeNext]_vars

\* every API call and every file read settles
AnalyzeLive == AnalyzeSpec /\ WF_vars(Settles)

----------------------------------------------------------------------------
(* handleDownloadPdf (App, part_002 lines 199-215): the report the App      *)
(* holds is generated after one turn of the event loop.  pc runs from the   *)
(* button ("ready") over the timer ("yield") into generatePdf and out of it. *)

\* the message of line 211
CouldNotGenerate == "Could not generate PDF. Please try again."

\* the results the App may hold when the button is pressed: none, or what
\* processAnalysis made of a raw result
DownloadResults ==
    {NoResult}
    \cup {processAnalysis(raw) :
            raw \in {r \in RawResultsOf({JobRole},
                                        RawLists(2, {CHOOSE s \in RawScores :
                                            s.semantic_relevance_score = 90}),
                                        {[bias_flags |-> <<>>], [flags |-> <<>>]}) :
                        ~Malformed(r)}}

\* the App with a result or none, an error showing or none, and a backend
\* that may raise
DownloadInit ==
    /\ result \in DownloadResults
    /\ error \in {null, PleaseProvide}
    /\ loading = FALSE
    /\ loadingMessage = <<>>
    /\ progress = 0
    /\ isGeneratingPdf = FALSE
    /\ runs = <<>>
    /\ reported = <<>>
    /\ y = NoBuilder.y
    /\ pageNumber = NoBuilder.pageNumber
    /\ numPages = NoBuilder.numPages
    /\ font = NoBuilder.font
    /\ textColor = NoBuilder.textColor
    /\ headers = NoBuilder.headers
    /\ log = NoBuilder.log
    /\ checks = NoBuilder.checks
    /\ invoked = NoBuilder.invoked
    /\ currentPage = NoBuilder.currentPage
    /\ pc = "ready"
    /\ frame = NoFrame
    /\ call = [op |-> "none", req |-> 0, arg |-> <<>>, y0 |-> 0, page0 |-> 0,
               font0 |-> NoBuilder.font]
    /\ ncalls = 0
    /\ index = 0
    /\ outline = <<>>
    /\ faulty = TRUE
    /\ thrown = NoError
    /\ rawResult = Undefined
    /\ fileName = NoFile

\* what neither the handler nor the timer touches
document ==
    <<y, pageNumber, numPages, font, textColor, headers, log, checks,
      invoked, currentPage, frame, ncalls, index, outline, faulty, thrown,
      fileName, result, rawResult>>

\* lines 200-207, up to the await: the button is disabled while a PDF is
\* being generated (line 472)
HandleDownloadPdf ==
    /\ pc = "ready"
    /\ ~isGeneratingPdf
    /\ call' = Called("handleDownloadPdf", 0, <<>>)
    /\ IF result = NoResult
       THEN /\ pc' = "returned"
            /\ UNCHANGED <<isGeneratingPdf, error>>
       ELSE /\ isGeneratingPdf' = TRUE
            /\ error' = null
            /\ pc' = "yield"
    /\ UNCHANGED <<document, loading, loadingMessage, progress, runs,
                   reported>>

\* line 207: the timer of 50 ms fires and the handler goes on to line 208
Yielded ==
    /\ pc = "yield"
    /\ pc' = "processed"
    /\ UNCHANGED <<document, call, ui>>

\* the handler without its finally block
DownloadCatches_NoFinally ==
    /\ pc = "raised"
    /\ isGeneratingPdf
    /\ error' = CouldNotGenerate
    /\ pc' = "downloadFailed"
    /\ UNCHANGED <<document, call, loading, loadingMessage, progress,
                   isGeneratingPdf, runs, reported>>

\* lines 209-214: generatePdf raised; catch, then finally
DownloadCatches ==
    /\ pc = "raised"
    /\ isGeneratingPdf
    /\ error' = CouldNotGenerate
    /\ isGeneratingPdf' = FALSE
    /\ pc' = "downloadFailed"
    /\ UNCHANGED <<document, call, loading, loadingMessage, progress, runs,
                   reported>>

\* lines 208 and 212-214: generatePdf returned; finally
DownloadReturns ==
    /\ pc = "saved"
    /\ isGeneratingPdf
    /\ isGeneratingPdf' = FALSE
    /\ pc' = "downloaded"
    /\ UNCHANGED <<document, call, loading, loadingMessage, error, progress,
                   runs, reported>>

\* what follows the button: the timer, generatePdf from its constructor to
\* its save or to the error it raises, and the end of the handler
Downloading ==
    \/ Yielded
    \/ GeneratePdf
    \/ GenNext
    \/ SaveRaises
    \/ DownloadCatches
    \/ DownloadReturns

DownloadNext ==
    \/ HandleDownloadPdf
    \/ Yielded
    \/ GeneratePdf
    \/ GenNext
    \/ SaveRaises
    \/ DownloadCatches
    \/ DownloadReturns

DownloadSpec == DownloadInit /\ [][DownloadNext]_vars

\* the timer fires, and the synchronous code after it runs to its end
DownloadLive == DownloadSpec /\ WF_vars(Downloading)

----------------------------------------------------------------------------
(* Vocabulary of the properties *)

Renderers ==
    {"addHeader", "addSubheader", "addSectionTitle", "addBodyText",
     "addBulletList", "addScoreGrid", "addSummaryTable", "addSeparator",
     "addStyledSection"}

\* a call has returned to its caller
Returned(op) == pc = "idle" /\ call.op = op

\* the paints of a stretch of the log, page headers left out
BlockPaints(from, to) ==
    SelectSeq(SubSeq(log, from, to), LAMBDA r : r.t # "pageHeader")

PaintsOf(t) == SelectSeq(log, LAMBDA r : r.t = t)

\* the vertical extent of a paint (a rectangle of negative height extends upward)
Top(r) == IF r.h < 0 THEN r.y + r.h ELSE r.y
Bottom(r) == IF r.h < 0 THEN r.y ELSE r.y + r.h

\* the height a content procedure takes when no page break intervenes, and
\* its tallest block; the content of a styled section starts in the font of
\* the section title
ContentHeight(content) == Sum(BlockHeights(content, FONT_SIZES.H3))
TallestBlock(content) == Max(BlockHeights(content, FONT_SIZES.H3))

----------------------------------------------------------------------------
(* C1 *)

\* C1 as claimed: after any renderer returns, MARGIN <= y <= pageHeight -
\* MARGIN - FOOTER_HEIGHT.
C1_CursorWithinLimits ==
    (pc = "idle" /\ call.op \in Renderers) => (MARGIN <= y /\ y <= Limit)

\* C1 as amended: after any renderer returns, MARGIN <= y; y <= Limit after
\* addHeader, addSubheader, addSectionTitle, addScoreGrid and addSeparator, and
\* after addBulletList and addBodyText of a defined text when no text block is
\* taller than the usable height (addBodyText of an absent text leaves y as it
\* was); a summary table no taller than the usable height leaves
\* y <= Limit + 5 (its trailing gap), and a styled section whose content blocks
\* are each no taller than the usable height leaves y <= Limit + 7 (a content
\* gap of 2 and the trailing gap of 5).
C1_CursorBounds ==
    (pc = "idle" /\ call.op \in Renderers) =>
        /\ MARGIN <= y
        /\ call.op \in {"addHeader", "addSubheader", "addSectionTitle",
                        "addScoreGrid", "addSeparator"} => y <= Limit
        /\ (call.op \in {"addBodyText", "addBulletList"}
              /\ 0 < call.req /\ call.req <= Usable) => y <= Limit
        /\ (call.op = "addSummaryTable" /\ call.req <= Usable)
              => y <= Limit + 5 * Unit
        /\ (call.op = "addStyledSection" /\ TallestBlock(frame.content) <= Usable)
              => y <= Limit + 7 * Unit

\* a summary table that fits the page has returned with the cursor in the
\* bottom margin
C1_Witness ==
    /\ Returned("addSummaryTable")
    /\ call.req <= Usable
    /\ y > Limit
    /\ y <= Limit + 5 * Unit

----------------------------------------------------------------------------
(* C2 *)

\* C2: checkAndAddPage(h) called where y + h <= Limit leaves the page index and
\* y unchanged; called where y + h > Limit it increments the page index by
\* exactly one and sets y to MARGIN.
C2_CheckAndAddPage ==
    Returned("checkAndAddPage") =>
        IF call.y0 + call.req <= Limit
        THEN pageNumber = call.page0 /\ y = call.y0
        ELSE pageNumber = call.page0 + 1 /\ y = MARGIN

\* a capacity check that did not fit has returned, below a non-empty page
C2_Witness ==
    /\ Returned("checkAndAddPage")
    /\ call.y0 > MARGIN
    /\ call.y0 + call.req > Limit
    /\ pageNumber = call.page0 + 1

----------------------------------------------------------------------------
(* C3, C4: the box and the repaint of addStyledSection *)

\* C3 as claimed: whenever the content procedure causes a page break during
\* its first invocation, addStyledSection draws no filled background rectangle.
C3_NoBoxWhenContentBreaksPage ==
    (Returned("addStyledSection") /\ frame.endPage > frame.startPage)
        => PaintsOf("box") = <<>>

\* C4 as claimed: when the first pass stays on the current page, exactly one
\* filled rectangle is drawn, spanning startY..endY across the content width,
\* and the second pass paints the title and every content block on the same
\* page and at the same y as the first pass.
C4_BoxOnceAndRepaintCoversFirstPass ==
    (Returned("addStyledSection") /\ frame.endPage = frame.titlePage) =>
        /\ Len(PaintsOf("box")) = 1
        /\ LET box == PaintsOf("box")[1]
           IN  /\ box.k = "fill"
               /\ box.p = frame.titlePage
               /\ box.x = MARGIN
               /\ box.y = frame.startY
               /\ box.h = frame.endY - frame.startY
        /\ BlockPaints(frame.n2 + 1, Len(log)) = BlockPaints(1, frame.n1)

----------------------------------------------------------------------------
(* C5, C6: addSummaryTable *)

\* C5 as claimed, on the tables no taller than the usable height: for every
\* starting cursor position and row count n, the outer border starts at the y
\* at which the header row was painted and has height (n+1) x rowHeight, and
\* each vertical separator spans that same y-range at x = MARGIN + a prefix
\* sum of the column widths.
C5_BorderFramesTheRows ==
    (Returned("addSummaryTable") /\ call.req <= Usable) =>
        LET headY == PaintsOf("headband")[1].y
            border == PaintsOf("border")
            vsep == PaintsOf("vsep")
        IN  /\ Len(border) = 1
            /\ border[1].y = headY
            /\ border[1].h = call.req
            /\ Len(vsep) = Len(colWidths) - 1
            /\ \A i \in 1..Len(vsep) :
                  /\ vsep[i].y = headY
                  /\ vsep[i].h = call.req
                  /\ vsep[i].x = columnX(i)

\* the header and body row paints of the table
RowPaints == SelectSeq(log, LAMBDA r : r.t \in {"headband", "head", "band", "cell"})

\* C6: addSummaryTable for n candidates performs a single capacity check of
\* exactly (n+1) x rowHeight, before any cell is painted (a page it starts
\* precedes every paint of the table), and all header and body row paints are
\* issued on one and the same page.
C6_TableCheckedOnceAndUnsplit ==
    Returned("addSummaryTable") =>
        /\ checks = <<call.req>>
        /\ Len(PaintsOf("cell")) * rowHeight = Len(colWidths) * (call.req - rowHeight)
        /\ Len(PaintsOf("head")) = Len(colWidths)
        /\ \A i \in 1..Len(RowPaints) : RowPaints[i].p = numPages
        /\ \A i \in 1..Len(log) :
              log[i].t = "pageHeader" =>
                  \A j \in 1..Len(log) : log[j].t # "pageHeader" => i < j

\* a table of several rows that did not fit was moved to a new page as a whole
C6_Witness ==
    /\ Returned("addSummaryTable")
    /\ call.req > 2 * rowHeight
    /\ call.req <= Usable
    /\ pageNumber = call.page0 + 1
    /\ call.y0 + rowHeight <= Limit

\* a table taller than the usable height was painted on one page
C6_WitnessOverTall ==
    /\ Returned("addSummaryTable")
    /\ call.req > Usable
    /\ Len(PaintsOf("cell")) > 0

----------------------------------------------------------------------------
(* C7 *)

\* the required height of the call that returned
RequiredHeight ==
    IF call.op = "addStyledSection"
    THEN 5 * Unit + SectionTitleAdvance + 2 * Unit
         + ContentHeight(frame.content) + 5 * Unit
    ELSE call.req

\* C7 as claimed, on the calls that start with the cursor inside the usable
\* area: for every renderer call whose required height is at most the usable
\* page height, everything the call paints lies on a single page with vertical
\* extent inside [MARGIN, Limit].  The two block kinds that may split by design
\* are given their due: a bullet list is held to the extent only, and a styled
\* section is held to the claim only when its first pass stayed on one page.
C7_PaintsInsideUsableArea ==
    (pc = "idle" /\ call.op \in Renderers /\ RequiredHeight <= Usable
        /\ call.y0 <= Limit
        /\ (call.op = "addStyledSection" => frame.endPage = frame.titlePage)) =>
        LET paints == BlockPaints(1, Len(log))
        IN  \A i \in 1..Len(paints) :
               /\ MARGIN <= Top(paints[i])
               /\ Bottom(paints[i]) <= Limit
               /\ call.op # "addBulletList" => paints[i].p = paints[1].p

----------------------------------------------------------------------------
(* C8 *)

\* C8 as claimed: between two consecutive steps y is lowered only by addPage.
C8_OnlyAddPageLowersY == [][y' < y => pageNumber' > pageNumber]_vars

\* C8 as amended: y is lowered only by addPage and by the two assignments of
\* addStyledSection itself: the rewind y = contentStartY - 7 before the repaint
\* and the final y = endY.
C8_OnlyAddPageAndStyledSectionLowerY ==
    [][y' < y => (pageNumber' > pageNumber \/ pc \in {"test", "restore"})]_vars

\* the rewind has lowered y on the page the first pass ended on
C8_Witness ==
    /\ pc = "repaint"
    /\ y = frame.contentStartY - 7 * Unit
    /\ y < frame.endY
    /\ pageNumber = frame.endPage

----------------------------------------------------------------------------
(* C9, C10 *)

\* C9: every call of addStyledSection invokes its content procedure exactly
\* twice, on both branches: once by the end of the first pass, twice on return.
C9_ContentInvokedTwice ==
    /\ pc \in {"test", "repaint"} => invoked = 1
    /\ pc = "restore" => invoked = 2
    /\ Returned("addStyledSection") => invoked = 2

\* the boundary-crossed branch has returned
C9_Witness ==
    /\ Returned("addStyledSection")
    /\ spansPageBreak(frame)
    /\ PaintsOf("box") = <<>>
    /\ invoked = 2

\* C10: on return from addStyledSection, on both branches, y equals the endY
\* recorded after the first pass (y after the first content invocation plus
\* 5), whatever value y reached during the second pass.
C10_ReturnsAtEndY ==
    Returned("addStyledSection") =>
        /\ y = frame.endY
        /\ frame.endY = frame.contentEndY + 5 * Unit

\* the second pass ended elsewhere, on a later page, and y is endY again
C10_Witness ==
    /\ Returned("addStyledSection")
    /\ frame.repaintEndY # frame.endY
    /\ frame.repaintPage > frame.endPage
    /\ y = frame.endY

----------------------------------------------------------------------------
(* C11, C12: finalizeAndAddFooters *)

\* what a call of finalizeAndAddFooters added to the paints that were there
Stamped == SubSeq(log, call.arg + 1, Len(log))

\* C11: finalizeAndAddFooters on a document of N pages stamps exactly N
\* footers, one on each page i = 1..N in ascending order, each a rule line at
\* pageHeight - FOOTER_HEIGHT and the text "Page i of N" centred 6 below it,
\* for that page's own i and the final N; no page gets none or two.
C11_OneFooterPerPage ==
    Returned("finalizeAndAddFooters") =>
        LET fs == Stamped
        IN  /\ Len(fs) = 2 * numPages
            /\ \A i \in 1..numPages :
                  LET rule == fs[2 * i - 1]
                      str == fs[2 * i]
                  IN  /\ rule.k = "line" /\ rule.p = i
                      /\ rule.y = pageHeight - FOOTER_HEIGHT
                      /\ str.k = "text" /\ str.p = i
                      /\ str.x = pageWidth \div 2
                      /\ str.y = pageHeight - FOOTER_HEIGHT + 6 * Unit
                      /\ str.s = <<"Page", i, "of", numPages>>

\* the footers of a document of three pages were stamped
C11_Witness ==
    /\ Returned("finalizeAndAddFooters")
    /\ numPages = 3
    /\ Len(Stamped) = 6

\* C12: finalizeAndAddFooters leaves y, pageNumber and the backend page count
\* unchanged, adds no page, and adds only footer rules and footer texts; every
\* paint recorded before the call is still there, unchanged, after it.
C12_FootersLeaveTheRestAlone ==
    [][(call'.op = "finalizeAndAddFooters" /\ ncalls' = ncalls + 1) =>
          /\ y' = y
          /\ pageNumber' = pageNumber
          /\ numPages' = numPages
          /\ headers' = headers
          /\ Len(log') >= Len(log)
          /\ SubSeq(log', 1, Len(log)) = log
          /\ \A j \in (Len(log) + 1)..Len(log') : log'[j].t = "footer"]_vars

\* footers were stamped on a document of several pages that held content,
\* with the cursor in mid-page
C12_Witness ==
    /\ Returned("finalizeAndAddFooters")
    /\ numPages > 1
    /\ y > MARGIN
    /\ call.arg > 0
    /\ Len(BlockPaints(1, call.arg)) > 0

----------------------------------------------------------------------------
(* C13 *)

\* C13: addPage appends a backend page only when pageNumber > 0 (the
\* constructor's call appends none, every later one appends one, so the page
\* count and pageNumber agree), increments pageNumber by exactly one, sets y
\* to MARGIN and paints the page header; so after any sequence of operations
\* every page of the document, page 1 included, carries the header exactly
\* once.
C13_EveryPageHasOneHeader ==
    /\ numPages = pageNumber
    /\ Len(headers) = numPages
    /\ \A p \in 1..numPages : headers[p] = 1
    /\ call.op = "constructor" => (pageNumber = 1 /\ y = MARGIN)
    /\ Returned("addPage") =>
          /\ pageNumber = call.page0 + 1
          /\ y = MARGIN
          /\ Len(log) = 2
          /\ \A i \in 1..Len(log) : log[i].t = "pageHeader" /\ log[i].p = numPages
          /\ log[1].k = "text" /\ log[2].k = "line"

\* addPage has started the third page of a document
C13_Witness ==
    /\ Returned("addPage")
    /\ call.page0 = 2
    /\ numPages = 3
    /\ headers = <<1, 1, 1>>

----------------------------------------------------------------------------
(* C14 *)

\* C14 as claimed: for any defined text, addBodyText paints at the prior y (or
\* at MARGIN after a page break) and leaves y at that paint y plus lines x
\* (FONT_SIZES.BODY x 0.352778) x LINE_HEIGHT_MULTIPLIER, where lines is the
\* text's wrapped line count at the content width in the body font it is
\* painted in; the page-break decision and the advance are determined by the
\* text, the starting y and the page.
C14_BodyTextAdvanceIsDetermined ==
    (Returned("addBodyText") /\ call.arg # Undefined) =>
        LET textHeight ==
                Wrapped(call.arg, FONT_SIZES.BODY, contentWidth) * TextLineHeight
            breaks == call.y0 + textHeight > Limit
            paints == PaintsOf("body")
        IN  /\ Len(paints) = 1
            /\ paints[1].y = (IF breaks THEN MARGIN ELSE call.y0)
            /\ pageNumber = (IF breaks THEN call.page0 + 1 ELSE call.page0)
            /\ y = paints[1].y + textHeight

----------------------------------------------------------------------------
(* C15 *)

\* C15: addBulletList with an empty or absent list paints exactly one italic
\* "None listed" body line and nothing else; with a non-empty list it makes
\* one capacity check per item, sized to that item's wrapped height, and
\* paints for each item the bullet glyph and the item's wrapped lines on one
\* page at the same y (a page break may come between items, never inside
\* one).
C15_BulletListItemsUnsplit ==
    Returned("addBulletList") =>
        LET paints == BlockPaints(1, Len(log))
            bullets == PaintsOf("bullet")
            items == PaintsOf("item")
            n == Len(call.arg)
        IN  IF n = 0
            THEN /\ Len(paints) = 1
                 /\ paints[1].t = "body"
                 /\ paints[1].f = [size |-> FONT_SIZES.BODY, style |-> "italic"]
                 /\ paints[1].c = Colors.body
                 /\ paints[1].h = TextLineHeight
            ELSE /\ Len(paints) = 2 * n
                 /\ Len(bullets) = n
                 /\ Len(items) = n
                 /\ checks = ItemHeights(call.font0.size, call.arg)
                 /\ \A i \in 1..n :
                       /\ items[i].h = checks[i]
                       /\ bullets[i].p = items[i].p
                       /\ bullets[i].y = items[i].y
                       /\ paints[2 * i - 1] = bullets[i]
                       /\ paints[2 * i] = items[i]
                       /\ i > 1 => items[i].p >= items[i - 1].p

\* a page break came between the two items of a list
C15_Witness ==
    /\ Returned("addBulletList")
    /\ Len(call.arg) = 2
    /\ call.y0 > MARGIN
    /\ PaintsOf("item")[1].p = call.page0
    /\ PaintsOf("item")[2].p = call.page0 + 1
    /\ PaintsOf("bullet")[2].y = MARGIN

\* "None listed" was painted for an empty list
C15_WitnessEmpty ==
    /\ Returned("addBulletList")
    /\ Len(call.arg) = 0
    /\ Len(PaintsOf("body")) = 1

----------------------------------------------------------------------------
(* C16 *)

\* C16: addScoreGrid makes its single capacity check before painting any
\* column (a page it starts precedes every paint of the grid), and all eight
\* text paints, four values and four labels, are issued on one page.
C16_ScoreGridCheckedOnceAndUnsplit ==
    Returned("addScoreGrid") =>
        LET paints == BlockPaints(1, Len(log))
        IN  /\ checks = <<20 * Unit>>
            /\ Len(paints) = 8
            /\ Len(PaintsOf("value")) = 4
            /\ Len(PaintsOf("label")) = 4
            /\ \A i \in 1..Len(paints) :
                  /\ paints[i].k = "text"
                  /\ paints[i].p = numPages
            /\ pageNumber = (IF call.y0 + 20 * Unit > Limit
                             THEN call.page0 + 1 ELSE call.page0)
            /\ \A i \in 1..Len(log) :
                  log[i].t = "pageHeader" =>
                      \A j \in 1..Len(log) : log[j].t # "pageHeader" => i < j

\* a grid that did not fit was painted as a whole on a new page
C16_Witness ==
    /\ Returned("addScoreGrid")
    /\ call.y0 > MARGIN
    /\ pageNumber = call.page0 + 1
    /\ Len(PaintsOf("value")) = 4

----------------------------------------------------------------------------
(* C17: the outline of generatePdf *)

\* the entries of candidates i..n of n, a separator between consecutive ones
RECURSIVE CandidateEntries(_, _)
CandidateEntries(i, n) ==
    IF i > n THEN <<>>
    ELSE <<<<"candidate", i>>>>
         \o (IF i < n THEN <<Entry("separator")>> ELSE <<>>)
         \o CandidateEntries(i + 1, n)

ExpectedOutline(n) ==
    <<Entry("heading"), Entry("role"), Entry("date"), Entry("separator"),
      Entry("summaryHeading"), Entry("summaryTable"), Entry("page"),
      Entry("detailsHeading")>>
    \o CandidateEntries(1, n)
    \o <<Entry("check"), Entry("separator"), Entry("bias"),
         Entry("recommendation"), Entry("footers"), Entry("save")>>

\* the landmarks among the paints: the cover heading, the separators' rules,
\* the subheadings, the table's header band, and the first value of each
\* candidate's score grid
Landmarks ==
    LET marks == SelectSeq(log, LAMBDA r :
                    \/ r.t \in {"header", "rule", "subheader", "headband"}
                    \/ (r.t = "value" /\ r.x = MARGIN + contentWidth \div 8))
    IN  [i \in 1..Len(marks) |-> marks[i].t]

RECURSIVE CandidateLandmarks(_, _)
CandidateLandmarks(i, n) ==
    IF i > n THEN <<>>
    ELSE <<"value">> \o (IF i < n THEN <<"rule">> ELSE <<>>)
         \o CandidateLandmarks(i + 1, n)

ExpectedLandmarks(n) ==
    <<"header", "rule", "subheader", "headband", "subheader">>
    \o CandidateLandmarks(1, n) \o <<"rule">>

IsPrefix(s, t) == Len(s) <= Len(t) /\ s = SubSeq(t, 1, Len(s))

\* C17: for n ranked candidates generatePdf emits, in this order: cover
\* heading, role line, date line, separator, "Candidate Summary" subheading,
\* summary table, forced page, "Detailed Candidate Analysis" subheading, the
\* n candidate blocks in rank order with max(n-1, 0) separators between
\* consecutive candidates and none after the last, a capacity check, a
\* separator, the bias section, the recommendation section, the footers, and
\* save as the last operation; nothing is painted after the footers.
C17_OutlineInOrder ==
    LET n == Len(result.ranked_candidates)
    IN  /\ IsPrefix(outline, ExpectedOutline(n))
        /\ IsPrefix(Landmarks, ExpectedLandmarks(n))
        /\ pc \in {"save", "saved"} =>
              /\ Landmarks = ExpectedLandmarks(n)
              /\ \A j \in 1..Len(log) :
                    log[j].t = "footer" <=> j > Len(log) - 2 * numPages
        /\ pc = "saved" => outline = ExpectedOutline(n)

\* the report of two candidates was saved, with three separators in all
C17_Witness ==
    /\ pc = "saved"
    /\ Len(result.ranked_candidates) = 2
    /\ Len(PaintsOf("rule")) = 3
    /\ outline[Len(outline)] = Entry("save")

----------------------------------------------------------------------------
(* C18 *)

\* the stages of generatePdf after the forced page
AfterDetailsPage ==
    {"detailsHeading", "candidate", "reasoning", "lists", "between", "closing",
     "bias", "recommendation", "footers", "save", "saved"}

\* C18: generatePdf starts a new page after the summary table whatever space
\* remains, so the "Detailed Candidate Analysis" subheading is painted at
\* y = MARGIN on a page that holds no cover or summary-table content, and
\* every generated document has at least 2 pages.
C18_DetailsStartOnFreshPage ==
    /\ call.op = "detailsPage" =>
          (pageNumber = call.page0 + 1 /\ y = MARGIN)
    /\ call.op = "detailsHeading" =>
          LET sub == log[Len(log)]
          IN  /\ sub.t = "subheader"
              /\ sub.y = MARGIN
              /\ sub.p = numPages
              /\ \A j \in 1..call.arg :
                    log[j].t # "pageHeader" => log[j].p < sub.p
    /\ pc \in AfterDetailsPage => numPages >= 2

\* the page was started although the subheading would have fitted
C18_Witness ==
    /\ call.op = "detailsPage"
    /\ call.y0 + 15 * Unit <= Limit
    /\ pageNumber = call.page0 + 1
    /\ numPages = 2

----------------------------------------------------------------------------
(* C19 *)

\* the eleven paints of a candidate's head: title, overall line, the eight
\* texts of the score grid and the "Reasoning for Rank" title
HeadPaints ==
    LET before == BlockPaints(1, call.arg)
    IN  SubSeq(before, Len(before) - 10, Len(before))

\* C19: when a candidate's reasoning text, no taller than the usable page
\* height, does not fit in the space left after the candidate's title, overall
\* line, score grid and "Reasoning for Rank" title were painted, exactly one
\* new page is started, what was painted for the candidate stays on the prior
\* page, and the whole reasoning text is painted on the new page from
\* y = MARGIN.
C19_ReasoningMovesToNewPage ==
    (call.op = "candidateReasoning" /\ 0 < call.req /\ call.req <= Usable
        /\ call.y0 + call.req > Limit) =>
        LET paints == BlockPaints(call.arg + 1, Len(log))
        IN  /\ pageNumber = call.page0 + 1
            /\ numPages = pageNumber
            /\ Len(HeadPaints) = 11
            /\ HeadPaints[1].t = "title" /\ HeadPaints[11].t = "title"
            /\ \A i \in 1..Len(HeadPaints) : HeadPaints[i].p = call.page0
            /\ Len(paints) = 1
            /\ paints[1].t = "body"
            /\ paints[1].p = call.page0 + 1
            /\ paints[1].y = MARGIN
            /\ paints[1].h = call.req

\* a reasoning text that did not fit was moved to a new page
C19_Witness ==
    /\ call.op = "candidateReasoning"
    /\ call.req <= Usable
    /\ call.y0 + call.req > Limit
    /\ pageNumber = call.page0 + 1
    /\ y = MARGIN + call.req + 5 * Unit

----------------------------------------------------------------------------
(* C20 *)

\* C20: with an empty candidate list addSummaryTable paints the header row
\* only and reserves exactly 1 x rowHeight; generatePdf paints no candidate
\* block and no inter-candidate separator on the detailed-analysis page and
\* goes directly to the closing capacity check, separator, bias section and
\* recommendation section.
C20_EmptyCandidateList ==
    Len(result.ranked_candidates) = 0 =>
        /\ call.op = "summary" =>
              LET paints == BlockPaints(call.arg + 1, Len(log))
                  rows == SelectSeq(paints, LAMBDA r :
                             r.t \in {"headband", "head", "band", "cell"})
              IN  /\ checks = <<15 * Unit, rowHeight>>
                  /\ Len(rows) = 1 + Len(colWidths)
                  /\ rows[1].t = "headband" /\ rows[1].h = rowHeight
                  /\ \A i \in 2..Len(rows) : rows[i].t = "head"
        /\ call.op \notin {"candidateHead", "candidateReasoning",
                            "candidateLists", "separator", "noSeparator"}
        /\ call.op = "closing" =>
              LET before == BlockPaints(1, call.arg)
                  paints == BlockPaints(call.arg + 1, Len(log))
              IN  /\ before[Len(before)].t = "subheader"
                  /\ before[Len(before)].p = call.page0
                  /\ checks = <<80 * Unit, 10 * Unit>>
                  /\ Len(paints) = 1 /\ paints[1].t = "rule"
        /\ pc = "saved" =>
              /\ outline = ExpectedOutline(0)
              /\ PaintsOf("value") = <<>>
              /\ Len(PaintsOf("rule")) = 2

\* a report without candidates was saved
C20_Witness ==
    /\ pc = "saved"
    /\ Len(result.ranked_candidates) = 0
    /\ Len(PaintsOf("headband")) = 1
    /\ PaintsOf("cell") = <<>>
    /\ numPages = 2

----------------------------------------------------------------------------
(* C21: the bias content procedure *)

\* what the section that returned painted, page headers and the box left out
SectionPaints ==
    SelectSeq(BlockPaints(call.arg + 1, Len(log)), LAMBDA r : r.t # "box")

\* the paints of the k-th invocation of the section's content procedure: the
\* first runs between the section's two titles, the second after the latter
Invocation(k) ==
    LET ps == SectionPaints
        titles == {i \in 1..Len(ps) : ps[i].t = "title"}
        first == CHOOSE i \in titles : \A j \in titles : i <= j
        second == CHOOSE i \in titles : \A j \in titles : j <= i
    IN  IF k = 1 THEN SubSeq(ps, first + 1, second - 1)
        ELSE SubSeq(ps, second + 1, Len(ps))

\* C21: when the bias-flag list is empty, each invocation of the bias content
\* procedure paints exactly one body line, "No concerning biases detected.",
\* in the green colour (22,101,52) and calls no bullet-list renderer; when it
\* is non-empty, it paints for each flag, in list order, one bold "category
\* (severity)" line followed by a one-item bullet list.
C21_BiasContent ==
    call.op = "biasSection" =>
        /\ invoked = 2
        /\ Len(SelectSeq(SectionPaints, LAMBDA r : r.t = "title")) = 2
        /\ \A k \in 1..2 :
              LET ps == Invocation(k)
                  flags == result.bias_analysis.bias_flags
              IN  IF Len(flags) = 0
                  THEN /\ Len(ps) = 1
                       /\ ps[1].k = "text" /\ ps[1].t = "body"
                       /\ ps[1].h = TextLineHeight
                       /\ ps[1].c = <<22, 101, 52>>
                  ELSE /\ Len(ps) = 3 * Len(flags)
                       /\ \A i \in 1..Len(flags) :
                             /\ ps[3 * i - 2].t = "body"
                             /\ ps[3 * i - 2].f.style = "bold"
                             /\ ps[3 * i - 1].t = "bullet"
                             /\ ps[3 * i].t = "item"
                             /\ ps[3 * i].h =
                                   Wrapped(flags[i].flag, FONT_SIZES.BODY,
                                           contentWidth - 5 * Unit) * TextLineHeight

\* the bias section of a report without flags has returned
C21_Witness ==
    /\ call.op = "biasSection"
    /\ Len(result.bias_analysis.bias_flags) = 0
    /\ Len(Invocation(1)) = 1
    /\ Len(Invocation(2)) = 1
    /\ Invocation(2)[1].c = Colors.success

\* the bias section of a report with two different flags has returned
C21_WitnessFlags ==
    /\ call.op = "biasSection"
    /\ Len(result.bias_analysis.bias_flags) = 2
    /\ result.bias_analysis.bias_flags[1].flag # result.bias_analysis.bias_flags[2].flag
    /\ Len(Invocation(1)) = 6
    /\ Invocation(1)[3].h # Invocation(1)[6].h

----------------------------------------------------------------------------
(* C22 *)

\* C22: addBodyText called with an absent (undefined) text performs no
\* capacity check, paints nothing, adds no page and leaves y unchanged, and
\* raises no error (it returns, with the backend's font as it was).
C22_AbsentTextIsNoOp ==
    (call.op = "addBodyText" /\ call.arg = Undefined) =>
        /\ pc = "idle"
        /\ checks = <<>>
        /\ log = <<>>
        /\ pageNumber = call.page0
        /\ numPages = call.page0
        /\ y = call.y0
        /\ font = call.font0

\* addBodyText of an absent text has returned where no line would have fitted
C22_Witness ==
    /\ Returned("addBodyText")
    /\ call.arg = Undefined
    /\ call.y0 + TextLineHeight > Limit
    /\ y = call.y0
    /\ log = <<>>

----------------------------------------------------------------------------
(* C23 *)

\* the outline of a run that got as far as the footers
OutlineBeforeSave(n) == SubSeq(ExpectedOutline(n), 1, Len(ExpectedOutline(n)) - 1)

SaveInvoked == \E i \in 1..Len(outline) : outline[i] = Entry("save")

AllOrNothing ==
    LET n == Len(result.ranked_candidates)
    IN  /\ pc = "raised" <=> thrown # NoError
        /\ pc = "raised" =>
              /\ call.arg \in BackendErrors
              /\ thrown = call.arg
              /\ IsPrefix(outline, ExpectedOutline(n))
              /\ call.op = "raise" => ~SaveInvoked
        /\ SaveInvoked =>
              /\ IsPrefix(OutlineBeforeSave(n), outline)
              /\ Landmarks = ExpectedLandmarks(n)
              /\ Len(PaintsOf("footer")) = 2 * numPages

\* C23: if any drawing-backend operation raises during generatePdf, the
\* failure propagates to the caller of generatePdf unmodified, no operation
\* is retried (no stage is emitted twice and nothing happens after the
\* failure), and save is never invoked for that run; save is invoked only in
\* runs where every layout step and finalizeAndAddFooters completed.
C23_FailurePropagates ==
    /\ []AllOrNothing
    /\ [][pc = "raised" => FALSE]_vars

\* the backend raised while a candidate's lists were painted, some of them
\* already on the page
C23_Witness ==
    /\ pc = "raised"
    /\ call.op = "raise"
    /\ thrown = "QuotaExceededError"
    /\ Len(PaintsOf("item")) > 0
    /\ ~SaveInvoked

----------------------------------------------------------------------------
(* C24 *)

\* the steps of a run on n candidates: four before the candidates, four per
\* candidate, and five after them
StepsOf(n) == 9 + 4 * n

\* a stretch starts no more pages than it makes capacity checks (and the
\* pages the constructor and generatePdf start themselves), and the steps
\* made are no more than the report's length allows
Bounded ==
    /\ pageNumber - call.page0
          <= Len(checks)
             + (IF call.op \in {"constructor", "detailsPage"} THEN 1 ELSE 0)
    /\ ncalls <= StepsOf(Len(result.ranked_candidates))
    /\ pc = "saved" => ncalls = StepsOf(Len(result.ranked_candidates))

\* C24: for every finite analysis result and a backend that never raises,
\* generatePdf terminates: it adds at most one page per capacity check
\* (checkAndAddPage never loops), performs finitely many steps and reaches
\* save.
C24_Terminates ==
    /\ []Bounded
    /\ <>(pc = "saved")

\* a report of two candidates was saved after a stretch that started a page
\* at one of its capacity checks
C24_Witness ==
    /\ pc = "saved"
    /\ Len(result.ranked_candidates) = 2
    /\ ncalls = 17
    /\ numPages > 2

----------------------------------------------------------------------------
(* C25-C27: processAnalysis *)

ScoreNames ==
    {"semantic_relevance_score", "skill_match_score", "experience_match_score",
     "education_match_score"}

\* the raw candidate a ranked candidate was made of
RawOf(candidate) == rawResult.candidate_analysis[candidate.parsed_resume.name]

\* the score the raw candidate came with, 0 for one it lacks
RawScore(candidate, f) ==
    IF "scores" \in DOMAIN RawOf(candidate) /\ f \in DOMAIN RawOf(candidate).scores
    THEN RawOf(candidate).scores[f]
    ELSE 0

Scenario(candidate) ==
    /\ RawScore(candidate, "semantic_relevance_score") = 90
    /\ RawScore(candidate, "skill_match_score") = 80
    /\ RawScore(candidate, "experience_match_score") = 70
    /\ RawScore(candidate, "education_match_score") = 60

\* C25: every ranked candidate carries its four raw scores brought into
\* 0..100 (a missing score, or missing scores, count as 0; a score below 0
\* becomes 0 and one above 100 becomes 100), and an overall score of
\* 0.45 semantic + 0.30 skill + 0.20 experience + 0.05 education of these,
\* which lies in 0..100 (held in hundredths: 0..10000); the scores
\* (90, 80, 70, 60) give 81.5
C25_ClampedWeightedOverall ==
    pc = "processed" =>
        \A i \in 1..Len(result.ranked_candidates) :
            LET c == result.ranked_candidates[i]
            IN  /\ \A f \in ScoreNames :
                      /\ c.scores[f] \in 0..100
                      /\ RawScore(c, f) \in 0..100 => c.scores[f] = RawScore(c, f)
                      /\ RawScore(c, f) < 0 => c.scores[f] = 0
                      /\ RawScore(c, f) > 100 => c.scores[f] = 100
                /\ c.scores.overall_match_score =
                      45 * c.scores.semantic_relevance_score
                      + 30 * c.scores.skill_match_score
                      + 20 * c.scores.experience_match_score
                      + 5 * c.scores.education_match_score
                /\ c.scores.overall_match_score \in 0..10000
                /\ Scenario(c) => c.scores.overall_match_score = 8150

\* the scenario's candidate next to one with scores off the scale and one
\* with no scores
C25_Witness ==
    /\ pc = "processed"
    /\ \E i, j, k \in 1..Len(result.ranked_candidates) :
          /\ Scenario(result.ranked_candidates[i])
          /\ result.ranked_candidates[i].scores.overall_match_score = 8150
          /\ RawScore(result.ranked_candidates[j], "semantic_relevance_score") = 150
          /\ RawScore(result.ranked_candidates[j], "skill_match_score") = -10
          /\ result.ranked_candidates[j].scores.overall_match_score = 6500
          /\ "scores" \notin DOMAIN RawOf(result.ranked_candidates[k])
          /\ result.ranked_candidates[k].scores.overall_match_score = 0

\* C26: the ranked candidates are the raw candidates, each of them once and
\* with what it came with, at the ranks 1..n in this order, no overall
\* score being higher than the one before it
C26_RankedPermutation ==
    pc = "processed" =>
        LET out == result.ranked_candidates
            n == Len(rawResult.candidate_analysis)
        IN  /\ Len(out) = n
            /\ \A i \in 1..n :
                  \E j \in 1..n :
                     /\ out[j].parsed_resume.name = i
                     /\ \A k \in 1..n : out[k].parsed_resume.name = i => k = j
            /\ \A j \in 1..n :
                  /\ out[j].rank = j
                  /\ out[j].parsed_resume = RawOf(out[j]).parsed_resume
                  /\ out[j].reasoning = RawOf(out[j]).reasoning
                  /\ out[j].strengths = RawOf(out[j]).strengths
                  /\ out[j].weaknesses = RawOf(out[j]).weaknesses
                  /\ out[j].fit_assessment = RawOf(out[j]).fit_assessment
            /\ \A j \in 1..(n - 1) :
                  out[j].scores.overall_match_score
                     >= out[j + 1].scores.overall_match_score

\* three candidates that came lowest first, two of them of equal overall
\* score: the last one is ranked first
C26_Witness ==
    /\ pc = "processed"
    /\ Len(result.ranked_candidates) = 3
    /\ result.ranked_candidates[1].parsed_resume.name = 3
    /\ result.ranked_candidates[1].scores.overall_match_score = 10000
    /\ result.ranked_candidates[2].scores.overall_match_score = 8150
    /\ result.ranked_candidates[3].scores.overall_match_score = 8150
    /\ result.ranked_candidates[2].scores # result.ranked_candidates[3].scores

\* the stretches of generatePdf that come after the bias section
AfterBias == {"recommendation", "footers", "save", "saved"}

\* C27: the report processAnalysis makes has a bias analysis and a final
\* recommendation: the raw result's, or the defaults (no flag; 'N/A' and
\* 'Final recommendation was not provided.') for one it lacks.  generatePdf
\* reads them as they are: it never finds one of the two objects missing,
\* and puts no list in the place of one the bias analysis lacks
C27_DefaultsBeforeGeneratePdf ==
    /\ pc \notin {"raw", "raised"} =>
          /\ result.bias_analysis # Undefined
          /\ result.final_recommendation # Undefined
          /\ result.bias_analysis =
                IF "bias_analysis" \in DOMAIN rawResult
                THEN rawResult.bias_analysis
                ELSE [bias_flags |-> <<>>]
          /\ result.final_recommendation =
                IF "final_recommendation" \in DOMAIN rawResult
                THEN rawResult.final_recommendation
                ELSE [top_candidate |-> NA, reasoning |-> NotProvided]
    /\ call.op = "dereference" =>
          /\ call.arg = "bias_flags"
          /\ "bias_flags" \notin DOMAIN result.bias_analysis
    /\ pc \in AfterBias => "bias_flags" \in DOMAIN result.bias_analysis

\* a raw result with neither object: the report is saved with the line of
\* no bias in it
C27_Witness ==
    /\ pc = "saved"
    /\ "bias_analysis" \notin DOMAIN rawResult
    /\ "final_recommendation" \notin DOMAIN rawResult
    /\ Len(result.ranked_candidates) = 2
    /\ \E i \in 1..Len(log) : log[i].c = Colors.success

\* generatePdf left at the bias section of a report whose bias analysis has
\* no bias_flags
C27_WitnessNoList ==
    /\ pc = "raised"
    /\ thrown = "TypeError"
    /\ call.op = "dereference"
    /\ "flags" \in DOMAIN result.bias_analysis

----------------------------------------------------------------------------
(* C28: the name the report is saved under *)

\* C28: the report is saved under "HR_Screening_Report_" + role' + ".pdf",
\* role' being the role with each whitespace character replaced by one
\* underscore and every other character kept: as long as the role, and
\* with no whitespace in it; nothing is saved before generatePdf's last
\* statement
C28_SavedFileName ==
    IF pc = "saved"
    THEN LET role == result.parsed_job_description.role
             stem == SubSeq(fileName, 21, Len(fileName) - 4)
         IN  /\ SubSeq(fileName, 1, 20) =
                   <<"H", "R", "_", "S", "c", "r", "e", "e", "n", "i", "n",
                     "g", "_", "R", "e", "p", "o", "r", "t", "_">>
             /\ SubSeq(fileName, Len(fileName) - 3, Len(fileName)) =
                   <<".", "p", "d", "f">>
             /\ Len(stem) = Len(role)
             /\ \A i \in 1..Len(role) :
                   /\ role[i] \in Whitespace => stem[i] = "_"
                   /\ role[i] \notin Whitespace => stem[i] = role[i]
                   /\ stem[i] \notin Whitespace
    ELSE fileName = NoFile

\* a role with a run of whitespace in it and one at its end
C28_Witness ==
    /\ pc = "saved"
    /\ result.parsed_job_description.role =
          <<"Q", "A", " ", " ", "\t", "I", "I", "\n">>
    /\ fileName =
          <<"H", "R", "_", "S", "c", "r", "e", "e", "n", "i", "n", "g", "_",
            "R", "e", "p", "o", "r", "t", "_",
            "Q", "A", "_", "_", "_", "I", "I", "_", ".", "p", "d", "f">>

----------------------------------------------------------------------------
(* C29: the height a simple renderer reserves and the advance of the cursor *)

\* where the one capacity check of the call that returned left the cursor,
\* and how far the call advanced it from there
AfterCheck == IF pageNumber > call.page0 THEN MARGIN ELSE call.y0
AdvanceOfCall == y - AfterCheck

\* the advance of the i-th item of the bullet list that returned, when the
\* next item was painted on the same page
ItemAdvance(i) ==
    LET items == PaintsOf("item")
    IN  IF i < Len(items) THEN items[i + 1].y - items[i].y ELSE y - items[i].y

NextOnSamePage(i) ==
    LET items == PaintsOf("item")
    IN  i < Len(items) => items[i + 1].p = items[i].p

\* a body text, each item of a bullet list (its "None listed" line) and a
\* separator reserve what they advance by
TextsAndSeparatorReserveTheirAdvance ==
    /\ (pc = "idle" /\ call.op = "addBodyText" /\ call.arg # Undefined) =>
          checks = <<AdvanceOfCall>>
    /\ Returned("addSeparator") => checks = <<AdvanceOfCall>>
    /\ (Returned("addBulletList") /\ call.arg = <<>>) => checks = <<AdvanceOfCall>>
    /\ (Returned("addBulletList") /\ call.arg # <<>>) =>
          /\ Len(checks) = Len(call.arg)
          /\ Len(PaintsOf("item")) = Len(call.arg)
          /\ \A i \in 1..Len(call.arg) :
                NextOnSamePage(i) => checks[i] = ItemAdvance(i)

\* C29 as claimed: each simple block renderer passes to checkAndAddPage
\* exactly the height it afterwards advances y by
C29_ReservedEqualsAdvance ==
    /\ TextsAndSeparatorReserveTheirAdvance
    /\ (pc = "idle"
        /\ call.op \in {"addHeader", "addSubheader", "addSectionTitle"}) =>
          checks = <<AdvanceOfCall>>

\* C29: addBodyText, each item of addBulletList and addSeparator pass to
\* checkAndAddPage exactly the height they advance y by; addHeader,
\* addSubheader and addSectionTitle reserve the fixed heights 20, 15 and 10
\* and advance y by 14, 14.4 and 8.4 (0.7, 0.9 and 0.7 of their font size),
\* less than they reserved
C29_ReservedCoversAdvance ==
    /\ TextsAndSeparatorReserveTheirAdvance
    /\ Returned("addHeader") =>
          checks = <<20 * Unit>> /\ AdvanceOfCall = 14 * Unit
    /\ Returned("addSubheader") =>
          checks = <<15 * Unit>> /\ AdvanceOfCall = (144 * Unit) \div 10
    /\ Returned("addSectionTitle") =>
          checks = <<10 * Unit>> /\ AdvanceOfCall = (84 * Unit) \div 10
    /\ (pc = "idle"
        /\ call.op \in {"addHeader", "addSubheader", "addSectionTitle",
                        "addSeparator"}) =>
          checks[1] >= AdvanceOfCall

\* a header that fitted: 20 reserved, y advanced by 14
C29_Witness ==
    /\ Returned("addHeader")
    /\ pageNumber = call.page0
    /\ checks = <<20 * Unit>>
    /\ y = call.y0 + 14 * Unit

\* a list of two items of different heights on one page
C29_WitnessItems ==
    /\ Returned("addBulletList")
    /\ Len(call.arg) = 2
    /\ pageNumber = call.page0
    /\ checks[1] # checks[2]
    /\ y = call.y0 + checks[1] + checks[2]

----------------------------------------------------------------------------
(* C30: a block taller than the usable height of a page *)

\* a renderer of one block and one capacity check has returned from a block
\* taller than the usable height
OverTall ==
    /\ pc = "idle"
    /\ call.op \in {"addBodyText", "addSummaryTable"}
    /\ call.req > Usable

\* C30: the capacity check of a block taller than the usable height starts
\* exactly one new page, wherever the cursor stood (at MARGIN on a page with
\* nothing but its header as well); no error is raised; the block is painted
\* on that page in its full height from MARGIN on, and y ends beyond Limit
C30_OverTallBlockOverflows ==
    OverTall =>
        /\ checks = <<call.req>>
        /\ pageNumber = call.page0 + 1
        /\ numPages = pageNumber
        /\ Len(SelectSeq(log, LAMBDA r : r.t = "pageHeader" /\ r.k = "text")) = 1
        /\ thrown = NoError
        /\ \A i \in 1..Len(log) :
              /\ log[i].p = pageNumber
              /\ log[i].t # "pageHeader" => log[i].y >= MARGIN
        /\ y >= MARGIN + call.req
        /\ y > Limit
        /\ call.op = "addBodyText" =>
              /\ Len(PaintsOf("body")) = 1
              /\ PaintsOf("body")[1].y = MARGIN
              /\ PaintsOf("body")[1].h = call.req
              /\ y = MARGIN + call.req
        /\ call.op = "addSummaryTable" =>
              Len(PaintsOf("cell")) * rowHeight
                 = Len(colWidths) * (call.req - rowHeight)

\* the first call on a fresh builder is a text taller than a page: the first
\* page stays blank
C30_Witness ==
    /\ OverTall
    /\ call.op = "addBodyText"
    /\ ncalls = 1
    /\ call.y0 = MARGIN
    /\ call.page0 = 1
    /\ pageNumber = 2
    /\ y > Limit

\* an over-tall table met below other content
C30_WitnessTable ==
    /\ OverTall
    /\ call.op = "addSummaryTable"
    /\ call.y0 > MARGIN
    /\ y > Limit

----------------------------------------------------------------------------
(* C31: the pages of the repaint of addStyledSection *)

\* C31 as claimed: the second pass of addStyledSection adds no page: when
\* addStyledSection returns, the page count and the current page are those
\* at the end of its first pass
C31_RepaintAddsNoPage ==
    Returned("addStyledSection") =>
        /\ pageNumber = frame.endPage
        /\ numPages = frame.endPage

----------------------------------------------------------------------------
(* C32: the builder's page number and the backend's pages *)

\* the pages started by the paints l: one header text each
PagesStarted(l) ==
    Len(SelectSeq(l, LAMBDA r : r.t = "pageHeader" /\ r.k = "text"))

\* the step is the start of a call, whose paints replace those of the call
\* before (the footers and the later steps of a styled section add theirs)
StartsCall == pc = "idle" /\ call'.op # "finalizeAndAddFooters"

\* C32: between any two calls made on the builder, pageNumber is the
\* backend's page count and the backend's current page is its last page;
\* no step lowers pageNumber, and a step raises it by the number of pages
\* it started, one per addPage
C32_PageNumberIsPageCount ==
    /\ [](pageNumber = numPages /\ currentPage = numPages)
    /\ [][/\ pageNumber' >= pageNumber
          /\ pageNumber' - pageNumber =
                IF StartsCall THEN PagesStarted(log')
                ELSE PagesStarted(log') - PagesStarted(log)
          /\ call'.op = "addPage" => pageNumber' = pageNumber + 1]_vars

\* a renderer that started two pages has returned on the fourth page
C32_Witness ==
    /\ pc = "idle"
    /\ call.op \in Renderers
    /\ pageNumber = call.page0 + 2
    /\ PagesStarted(log) = 2
    /\ currentPage = 4
    /\ numPages = 4

----------------------------------------------------------------------------
(* C33: where a candidate's title is painted *)

\* the head of the candidate at `index` has just been painted
AfterCandidateHead == call.op = "candidateHead" /\ pc = "reasoning"

\* the place in the document of the "Rank r: name" title: the first title
\* the head painted
RankTitleAt ==
    CHOOSE j \in (call.arg + 1)..Len(log) :
        /\ log[j].t = "title"
        /\ \A k \in (call.arg + 1)..(j - 1) : log[k].t # "title"

\* page p holds nothing but its header before the paint at j
FreshBefore(p, j) ==
    \A k \in 1..(j - 1) : log[k].p = p => log[k].t = "pageHeader"

\* the "Detailed Candidate Analysis" subheading: the last subheading of the
\* document so far
DetailsSubheading ==
    LET subs == PaintsOf("subheader") IN subs[Len(subs)]

\* C33: every candidate's "Rank r: name" title is painted at MARGIN on a
\* page started for it, or on the page the cursor stood on with at least
\* 150 mm between it and the page limit; the first candidate's title is on
\* the page of the "Detailed Candidate Analysis" subheading
C33_RankTitleHasRoom ==
    AfterCandidateHead =>
        LET title == log[RankTitleAt]
        IN  /\ \/ /\ title.y = MARGIN
                  /\ title.p = call.page0 + 1
                  /\ FreshBefore(title.p, RankTitleAt)
               \/ /\ title.p = call.page0
                  /\ title.y = call.y0
                  /\ title.y + 150 * Unit <= Limit
            /\ index = 0 => title.p = DetailsSubheading.p

\* a second candidate whose title opens a page of its own
C33_Witness ==
    /\ AfterCandidateHead
    /\ index = 1
    /\ log[RankTitleAt].y = MARGIN
    /\ log[RankTitleAt].p = call.page0 + 1

\* a second candidate whose title follows the first on the same page
C33_WitnessSamePage ==
    /\ AfterCandidateHead
    /\ index = 1
    /\ log[RankTitleAt].p = call.page0
    /\ log[RankTitleAt].y > MARGIN

----------------------------------------------------------------------------
(* C39: processAnalysis on a raw result without candidates *)

\* C39: processAnalysis raises, and makes no analysis result, when the raw
\* result is absent or has no candidate_analysis array; on an empty array it
\* returns a result whose ranked list is empty; it never changes the raw
\* result
C39_MalformedRaises ==
    [][pc = "raw" =>
          /\ rawResult' = rawResult
          /\ IF Malformed(rawResult)
             THEN /\ thrown' = "Error"
                  /\ pc' = "raised"
                  /\ result' = NoResult
             ELSE /\ thrown' = NoError
                  /\ pc' = "processed"
                  /\ Len(result'.ranked_candidates)
                        = Len(rawResult.candidate_analysis)
                  /\ rawResult.candidate_analysis = <<>>
                        => result'.ranked_candidates = <<>>]_vars

\* a raw result that has everything but its candidates has been refused
C39_Witness ==
    /\ pc = "raised"
    /\ thrown = "Error"
    /\ rawResult # Undefined
    /\ DOMAIN rawResult = {"parsed_job_description", "bias_analysis",
                           "final_recommendation"}
    /\ result = NoResult

\* no raw result at all has been refused
C39_WitnessAbsent ==
    /\ pc = "raised"
    /\ thrown = "Error"
    /\ rawResult = Undefined

\* a raw result of no candidate has been processed
C39_WitnessEmpty ==
    /\ pc = "processed"
    /\ rawResult # Undefined
    /\ "candidate_analysis" \in DOMAIN rawResult
    /\ rawResult.candidate_analysis = <<>>
    /\ result.ranked_candidates = <<>>
    /\ thrown = NoError

----------------------------------------------------------------------------
(* C34: handleDownloadPdf *)

\* the positions between the button and the end of the handler
InDownload == pc \notin {"ready", "returned", "downloaded", "downloadFailed"}

\* where the handler stands, and what it has set
DownloadState ==
    /\ InDownload => isGeneratingPdf /\ error = null /\ result # NoResult
    /\ pc = "downloaded" => ~isGeneratingPdf /\ error = null /\ thrown = NoError
    /\ pc = "downloadFailed" =>
          ~isGeneratingPdf /\ error = CouldNotGenerate /\ thrown # NoError
    /\ pc = "returned" => ~isGeneratingPdf /\ result = NoResult
    /\ pc = "yield" => log = <<>> /\ numPages = 0

\* the button pressed without a result changes nothing of the App and
\* nothing of a document; with one, the handler stops at the timer; from the
\* timer to the end of generatePdf nothing of the App changes
DownloadStep ==
    /\ (pc = "ready" /\ result = NoResult) => UNCHANGED <<ui, document>>
    /\ (pc = "ready" /\ result # NoResult) =>
          pc' = "yield" /\ isGeneratingPdf' /\ error' = null
    /\ pc = "yield" => pc' = "processed" /\ UNCHANGED <<ui, document>>
    /\ (InDownload /\ pc \notin {"saved", "raised"}) => UNCHANGED <<ui, result>>
    /\ pc = "saved" => pc' = "downloaded"
    /\ pc = "raised" => pc' = "downloadFailed"

\* C34: handleDownloadPdf on a result sets isGeneratingPdf, waits for one
\* timer, then runs generatePdf to its end with nothing of the App changing
\* meanwhile; whether generatePdf returns or raises, isGeneratingPdf is set
\* back to false, and when it raises the error is "Could not generate PDF.
\* Please try again."; without a result the handler changes nothing
C34_DownloadEndsNotGenerating ==
    /\ []DownloadState
    /\ [][DownloadStep]_vars
    /\ isGeneratingPdf ~> ~isGeneratingPdf

\* generatePdf raised on its second page and the handler caught it
C34_Witness ==
    /\ pc = "downloadFailed"
    /\ numPages = 2
    /\ thrown \in BackendErrors
    /\ error = CouldNotGenerate
    /\ ~isGeneratingPdf

\* the report was saved and the error shown before the download is gone
C34_WitnessSaved ==
    /\ pc = "downloaded"
    /\ fileName # NoFile
    /\ Len(result.ranked_candidates) = 2
    /\ error = null
    /\ ~isGeneratingPdf

\* the button was pressed without a result, an error showing
C34_WitnessNoResult ==
    /\ pc = "returned"
    /\ result = NoResult
    /\ error = PleaseProvide

----------------------------------------------------------------------------
(* C35: the end of a handleAnalyze run *)

\* the invocation in progress, or the last one made
LastRun == runs[Len(runs)]

\* how the last invocation left the App
RunEnded ==
    runs # <<>> =>
        /\ LastRun.pc = "succeeded" =>
              ~loading /\ result # NoResult /\ error = null
        /\ LastRun.pc = "failed" =>
              ~loading /\ result = NoResult /\ error # null
        /\ LastRun.pc = "refused" => ~loading
        /\ loading <=> LastRun.pc \notin {"succeeded", "failed", "refused"}

\* an invocation refused by the validation changes the error and nothing else
Refusal ==
    (Len(runs') > Len(runs) /\ runs'[Len(runs')].pc = "refused") =>
        /\ error' = PleaseProvide
        /\ ~loading'
        /\ UNCHANGED <<loading, loadingMessage, progress, result, reported,
                       isGeneratingPdf>>

\* C35: a handleAnalyze run that passed the validation sets loading back to
\* false once its API calls have settled, with a result and no error when it
\* succeeded, with an error and no result when anything failed; a run that
\* fails the validation sets the error only and never sets loading
C35_RunEndsNotLoading ==
    /\ loading ~> ~loading
    /\ []RunEnded
    /\ [][Refusal]_vars

\* a second run has succeeded after a first one failed
C35_Witness ==
    /\ Len(runs) = 2
    /\ runs[1].pc = "failed"
    /\ runs[2].pc = "succeeded"
    /\ ~loading
    /\ result # NoResult
    /\ error = null

\* a run has failed after its summary had arrived
C35_WitnessFailed ==
    /\ runs # <<>>
    /\ LastRun.pc = "failed"
    /\ "getFinalSummary" \in LastRun.called
    /\ ~loading
    /\ result = NoResult
    /\ error # null

\* a run has been refused after one that succeeded, whose result stays
C35_WitnessRefused ==
    /\ Len(runs) = 2
    /\ runs[1].pc = "succeeded"
    /\ runs[2].pc = "refused"
    /\ error = PleaseProvide
    /\ result # NoResult

----------------------------------------------------------------------------
(* C36: the progress indicator while nothing is loading *)

\* C36: whenever loading is false, progress is 0 and the loading message
\* is empty, however the then-callbacks of the resume analyses interleave
\* with the end of handleAnalyze
C36_IdleIndicatorIsClear ==
    ~loading => progress = 0 /\ loadingMessage = <<>>

----------------------------------------------------------------------------
(* C37: the progress of the resume analyses *)

\* p is 5 + round(90 k / n), halves rounded up
Rounds(p, k, n) ==
    /\ 180 * k - n < 2 * n * (p - 5)
    /\ 2 * n * (p - 5) <= 180 * k + n

Fulfilled(run) == {i \in DOMAIN run.analyses : run.analyses[i] = "fulfilled"}

\* no earlier invocation left an analysis behind whose callback may run late
Undisturbed ==
    \A q \in 1..(Len(runs) - 1) :
        \A i \in DOMAIN runs[q].analyses : runs[q].analyses[i] # "rejected"

\* the counter of every invocation is the number of its analyses that
\* resolved; in the resume phase of an undisturbed invocation the progress
\* is the one of the counter, 95 when all have resolved
Counted ==
    /\ \A r \in 1..Len(runs) :
          /\ runs[r].completedResumes = Cardinality(Fulfilled(runs[r]))
          /\ runs[r].completedResumes \in 0..runs[r].totalResumes
    /\ (Running("resumes") /\ Undisturbed) =>
          /\ Rounds(progress, LastRun.completedResumes, LastRun.totalResumes)
          /\ progress \in 5..95
          /\ LastRun.completedResumes = LastRun.totalResumes => progress = 95

\* a then-callback of invocation r has run: the counter went up by one, and
\* the progress reported is the one of the new count, not below the one of
\* the count before
Reports(r) ==
    LET k == runs'[r].completedResumes
        n == runs[r].totalResumes
    IN  /\ k = runs[r].completedResumes + 1
        /\ k \in 1..n
        /\ reported' = Append(reported, progress')
        /\ progress' \in 5..95
        /\ Rounds(progress', k, n)
        /\ \A q \in 5..95 : Rounds(q, k - 1, n) => q <= progress'
        /\ k = n => progress' = 95
        /\ (r = Len(runs) /\ Undisturbed /\ Running("resumes")) =>
              progress' >= progress

C37_WitnessAll ==
    /\ runs # <<>>
    /\ LastRun.pc = "succeeded"
    /\ LastRun.totalResumes = 2
    /\ reported = <<0, 5, 50, 95, 100, 0>>

----------------------------------------------------------------------------
(* C38: a failed analysis fails the run *)

\* the job-description analysis of the invocation was rejected
JdFailed(run) ==
    /\ run.pc = "failed"
    /\ "analyzeJobDescription" \in run.called
    /\ run.parsedJd = Undefined

\* one of its resume analyses was rejected
ResumeFailed(run) ==
    \E i \in DOMAIN run.analyses : run.analyses[i] = "rejected"

\* C38: an invocation whose job-description analysis or one of whose resume
\* analyses failed calls neither getFinalSummary nor processAnalysis; as
\* long as it is the last one made no result is stored, and once its catch
\* has run the error is set and loading is over
C38_FailedAnalysisFailsRun ==
    \A r \in 1..Len(runs) :
        (JdFailed(runs[r]) \/ ResumeFailed(runs[r])) =>
            /\ runs[r].called \cap {"getFinalSummary", "processAnalysis"} = {}
            /\ runs[r].pc \in {"resumes", "failed"}
            /\ r = Len(runs) =>
                  /\ result = NoResult
                  /\ rawResult = Undefined \/ Len(runs) > 1
                  /\ runs[r].pc = "failed" =>
                        /\ ResumeFailed(runs[r]) =>
                              error = runs[r].reason.message
                        /\ error \notin {null, PleaseProvide}
                        /\ ~loading

\* a second run failed on one resume, the other analysed, after a first
\* run had stored its result
C38_Witness ==
    /\ Len(runs) = 2
    /\ runs[1].pc = "succeeded"
    /\ runs[2].pc = "failed"
    /\ runs[2].analyses = <<"fulfilled", "rejected">>
    /\ result = NoResult
    /\ error = InvalidJson.message

\* a run failed on its job description
C38_WitnessJd ==
    /\ runs # <<>>
    /\ JdFailed(LastRun)
    /\ LastRun.called = {"analyzeJobDescription"}
    /\ error = EmptyResponse.message

============================================================================
